---- MODULE Spec2Model ----
(***************************************************************************)
(* Verification model of the Tempest Cartesian core:                       *)
(*   - the column operators of LinearColumnOperatorFEM.cpp,                *)
(*   - the Cartesian GLL grid patch of GridPatchCartesianGLL.cpp,          *)
(*   - the driver main() of ThermalBubbleCartesianTest.cpp.                *)
(* Real numbers are exact rationals <<numerator, denominator>>; the        *)
(* reference coordinate REta is carried in integer grid units, the top of  *)
(* the column (REta = 1.0) being the last interface of the grid.           *)
(***************************************************************************)
EXTENDS Integers, Sequences, FiniteSets, TLC

(***************************************************************************)
(* Bounds of the model.                                                    *)
(***************************************************************************)
\* largest vertical order (points per finite element) of a column
MaxOrder == 3
\* largest number of finite elements of a column
MaxFE == 3

(***************************************************************************)
(* Exact rational arithmetic.                                              *)
(***************************************************************************)
Abs(x) == IF x < 0 THEN -x ELSE x

RECURSIVE GCD(_, _)
GCD(a, b) == IF b = 0 THEN a ELSE GCD(b, a % b)

\* the rational n/d in lowest terms with a positive denominator (d # 0)
Norm(n, d) ==
    LET g == GCD(Abs(n), Abs(d))
        s == IF d < 0 THEN -1 ELSE 1
    IN  <<s * (n \div g), s * (d \div g)>>

RZero == <<0, 1>>
ROne == <<1, 1>>
RInt(n) == <<n, 1>>

RAdd(x, y) ==
    LET g == GCD(x[2], y[2])
    IN  Norm(x[1] * (y[2] \div g) + y[1] * (x[2] \div g), (x[2] \div g) * y[2])

RNeg(x) == <<-x[1], x[2]>>

RSub(x, y) == RAdd(x, RNeg(y))

RMul(x, y) ==
    LET g1 == GCD(Abs(x[1]), y[2])
        g2 == GCD(Abs(y[1]), x[2])
    IN  Norm((x[1] \div g1) * (y[1] \div g2), (x[2] \div g2) * (y[2] \div g1))

\* x / y for y # 0
RDiv(x, y) == RMul(x, Norm(y[2], y[1]))

RECURSIVE IPow(_, _)
IPow(b, e) == IF e = 0 THEN 1 ELSE b * IPow(b, e - 1)

\* sum of f[k] for k in lo..hi-1
RECURSIVE RSum(_, _, _)
RSum(f, lo, hi) ==
    IF lo >= hi THEN RZero
    ELSE IF hi = lo + 1 THEN f[lo]
    ELSE LET mid == (lo + hi) \div 2
         IN  RAdd(RSum(f, lo, mid), RSum(f, mid, hi))

(***************************************************************************)
(* Polynomial kernels (PolynomialInterp): Lagrange interpolation and       *)
(* differentiation coefficients through the n points X[off .. off+n-1],    *)
(* evaluated at x.  The result is indexed 0 .. n-1.                        *)
(***************************************************************************)
\* product over j in from..n-1, j # i and j # m, of (x - X_j) / (X_i - X_j)
RECURSIVE LagrangeProduct(_, _, _, _, _, _, _)
LagrangeProduct(X, off, n, i, m, x, from) ==
    IF from >= n THEN ROne
    ELSE IF from = i \/ from = m THEN LagrangeProduct(X, off, n, i, m, x, from + 1)
    ELSE RMul(Norm(x - X[off + from], X[off + i] - X[off + from]),
              LagrangeProduct(X, off, n, i, m, x, from + 1))

LagrangianPolynomialCoeffs(n, X, off, x) ==
    [i \in 0..(n - 1) |-> LagrangeProduct(X, off, n, i, -1, x, 0)]

\* sum over m in from..n-1, m # i, of 1/(X_i - X_m) * prod_{j # i, m}
RECURSIVE DiffLagrangeSum(_, _, _, _, _, _)
DiffLagrangeSum(X, off, n, i, x, from) ==
    IF from >= n THEN RZero
    ELSE IF from = i THEN DiffLagrangeSum(X, off, n, i, x, from + 1)
    ELSE RAdd(RMul(Norm(1, X[off + i] - X[off + from]),
                   LagrangeProduct(X, off, n, i, from, x, 0)),
              DiffLagrangeSum(X, off, n, i, x, from + 1))

DiffLagrangianPolynomialCoeffs(n, X, off, x) ==
    [i \in 0..(n - 1) |-> DiffLagrangeSum(X, off, n, i, x, 0)]

(***************************************************************************)
(* Column grids.  A column has nFE finite elements of order p; element a   *)
(* has p+1 equally spaced interfaces (its end interfaces shared with its   *)
(* neighbours) and p levels at the midpoints between them.  The element    *)
(* widths follow one of the stretch patterns below, so that neighbouring   *)
(* elements may differ in width.  Coordinates are integers: the distance   *)
(* of a level to the nearest interface is 4 * ElementWeight.               *)
(***************************************************************************)
Patterns == {0, 1, 2}

ElementWeight(pat, a) ==
    IF pat = 0 THEN 1
    ELSE IF pat = 1 THEN (IF a % 2 = 0 THEN 1 ELSE 2)
    ELSE (IF a % 2 = 0 THEN 2 ELSE 1)

RECURSIVE ElementStart(_, _, _)
ElementStart(pat, p, a) ==
    IF a = 0 THEN 0
    ELSE ElementStart(pat, p, a - 1) + 8 * p * ElementWeight(pat, a - 1)

\* interfaces 0 .. nFE*p
GridREtaREdge(pat, p, nFE) ==
    [k \in 0..(nFE * p) |->
        ElementStart(pat, p, k \div p) + 8 * ElementWeight(pat, k \div p) * (k % p)]

\* levels 0 .. nFE*p - 1
GridREtaNode(pat, p, nFE) ==
    [k \in 0..(nFE * p - 1) |->
        ElementStart(pat, p, k \div p)
            + 4 * ElementWeight(pat, k \div p) * (2 * (k % p) + 1)]

\* number of entries of a vector (DataVector::GetRows), vectors indexed from 0
GetRows(v) == Cardinality(DOMAIN v)

\* the coordinate of REta = 1.0: the top interface of the grid
REtaOne(dREtaREdge) == dREtaREdge[GetRows(dREtaREdge) - 1]

\* comparison tolerance of the column operators, in grid units
ParamEpsilon == 2

(***************************************************************************)
(* Rows of a column operator.  A row is a function from the column index   *)
(* 0 .. nCols-1 to a rational coefficient.  The builders below return the  *)
(* record [co, ib, ie, oob]: the coefficient row, the support              *)
(* [ib, ie) it records, and whether an index outside an array was used.    *)
(***************************************************************************)
ZeroRow(nCols) == [k \in 0..(nCols - 1) |-> RZero]

\* the n entries off .. off+n-1 lie inside the array of nCols entries
InRange(nCols, off, n) == off >= 0 /\ off + n <= nCols

\* row[off + k] = vec[k], k in 0..n-1
PutAt(row, off, vec, n) ==
    [k \in DOMAIN row |-> IF k >= off /\ k < off + n THEN vec[k - off] ELSE row[k]]

\* row[off + k] += c * vec[k], k in 0..n-1
AddAt(row, off, vec, n, c) ==
    [k \in DOMAIN row |->
        IF k >= off /\ k < off + n THEN RAdd(row[k], RMul(c, vec[k - off])) ELSE row[k]]

\* row[k] *= c, k in lo..hi-1
ScaleRange(row, lo, hi, c) ==
    [k \in DOMAIN row |-> IF k >= lo /\ k < hi THEN RMul(row[k], c) ELSE row[k]]

RHalf == <<1, 2>>

\* The search for the finite element holding x: the loop "for (a = 0; a <
\* nFiniteElements - 1; a++)" entered at a.  on: x is on the upper edge of a.
RECURSIVE FindElement(_, _, _, _, _)
FindElement(a, nOrder, nFE, dREdge, x) ==
    IF a >= nFE - 1 THEN [a |-> a, on |-> FALSE]
    ELSE LET dNextREtaREdgeIn == dREdge[(a + 1) * nOrder] - ParamEpsilon
         IN  IF x < dNextREtaREdgeIn THEN [a |-> a, on |-> FALSE]
             ELSE IF x < dNextREtaREdgeIn + 2 * ParamEpsilon THEN [a |-> a, on |-> TRUE]
             ELSE FindElement(a + 1, nOrder, nFE, dREdge, x)

\* variant of EdgeWeights: the two sides are not weighted
EdgeWeightsUnweighted(a, nOrder, dREdge, pow) == [L |-> ROne, R |-> ROne]

\* variant of EdgeWeights: the right side is taken whole
EdgeWeightsRightWhole(a, nOrder, dREdge, pow) ==
    LET dDeltaREtaL == dREdge[(a + 1) * nOrder] - dREdge[a * nOrder]
        dDeltaREtaR == dREdge[(a + 2) * nOrder] - dREdge[(a + 1) * nOrder]
        dErrorL == IPow(dDeltaREtaL, pow)
        dErrorR == IPow(dDeltaREtaR, pow)
    IN  [L |-> Norm(dErrorR, dErrorL + dErrorR), R |-> ROne]

\* dWeightL, dWeightR of an output on the edge between elements a and a+1
EdgeWeights(a, nOrder, dREdge, pow) ==
    LET dDeltaREtaL == dREdge[(a + 1) * nOrder] - dREdge[a * nOrder]
        dDeltaREtaR == dREdge[(a + 2) * nOrder] - dREdge[(a + 1) * nOrder]
        dErrorL == IPow(dDeltaREtaL, pow)
        dErrorR == IPow(dDeltaREtaR, pow)
    IN  [L |-> Norm(dErrorR, dErrorL + dErrorR), R |-> Norm(dErrorL, dErrorL + dErrorR)]

\* LinearColumnInterpFEM::Initialize, the body of the loop over l
InterpRow(eSrc, nOrder, dNode, dREdge, dOut, l) ==
    LET nIn == GetRows(dNode)
        nOut == GetRows(dOut)
        nFE == nIn \div nOrder
        loc == FindElement(0, nOrder, nFE, dREdge, dOut[l])
        a == loc.a
        nCols == IF eSrc = "Interfaces" THEN nIn + 1 ELSE nIn
        zero == ZeroRow(nCols)
    IN  IF eSrc = "Interfaces" THEN
            IF loc.on THEN
                [co |-> [zero EXCEPT ![(a + 1) * nOrder] = ROne],
                 ib |-> 0, ie |-> 0, oob |-> FALSE]
            ELSE
                [co |-> PutAt(zero, a * nOrder,
                            LagrangianPolynomialCoeffs(nOrder + 1, dREdge,
                                a * nOrder, dOut[l]), nOrder + 1),
                 ib |-> a * nOrder, ie |-> (a + 1) * nOrder + 1, oob |-> FALSE]
        ELSE
            LET first == (nOrder = 1) /\ (l = 0)
                last == (nOrder = 1) /\ (l = nOut - 1) /\ ~first
                n == IF first \/ last THEN nOrder + 1 ELSE nOrder
                off == IF last THEN (a - 1) * nOrder ELSE a * nOrder
                ib == off
                ie == IF first THEN (a + 2) * nOrder ELSE (a + 1) * nOrder
            IN  IF ~InRange(nIn, off, n) \/ (loc.on /\ ~InRange(nCols, ie, nOrder))
                THEN [co |-> zero, ib |-> ib, ie |-> ie, oob |-> TRUE]
                ELSE LET left == PutAt(zero, off,
                                    LagrangianPolynomialCoeffs(n, dNode, off, dOut[l]), n)
                     IN  IF ~loc.on
                         THEN [co |-> left, ib |-> ib, ie |-> ie, oob |-> FALSE]
                         ELSE LET w == EdgeWeights(a, nOrder, dREdge, nOrder)
                                  both == PutAt(left, ie,
                                            LagrangianPolynomialCoeffs(nOrder, dNode,
                                                (a + 1) * nOrder, dOut[l]), nOrder)
                                  iNewEnd == ie + nOrder
                              IN  [co |-> ScaleRange(ScaleRange(both, ib, ie, w.L),
                                                     ie, iNewEnd, w.R),
                                   ib |-> ib, ie |-> iNewEnd, oob |-> FALSE]

\* variant of InterpLBegin: the first row is skipped wherever it lies
InterpLBeginAnywhere(dREdge, dOut, fZB) == IF fZB THEN 1 ELSE 0

\* first and one-past-last row of the loop: rows at REta = 0 and REta = 1 are
\* left alone when fZeroBoundaries is set
InterpLBegin(dREdge, dOut, fZB) ==
    IF fZB /\ Abs(dOut[0]) < ParamEpsilon THEN 1 ELSE 0

InterpLEnd(dREdge, dOut, fZB) ==
    IF fZB /\ Abs(dOut[GetRows(dOut) - 1] - REtaOne(dREdge)) < ParamEpsilon
    THEN GetRows(dOut) - 1 ELSE GetRows(dOut)

\* LinearColumnDiffFEM::InitializeInterfaceMethod, the body of the loop over l
\* (the operator differentiates interface values; nCols = nRElementsIn + 1)
InterfaceMethodRow(nOrder, dNode, dREdge, dOut, l) ==
    LET nIn == GetRows(dNode)
        nFE == nIn \div nOrder
        loc == FindElement(0, nOrder, nFE, dREdge, dOut[l])
        a == loc.a
        left == PutAt(ZeroRow(nIn + 1), a * nOrder,
                    DiffLagrangianPolynomialCoeffs(nOrder + 1, dREdge,
                        a * nOrder, dOut[l]), nOrder + 1)
    IN  IF ~loc.on
        THEN [co |-> left, ib |-> a * nOrder, ie |-> (a + 1) * nOrder + 1,
              oob |-> FALSE]
        ELSE LET w == EdgeWeights(a, nOrder, dREdge, nOrder)
                 dTempCoeff == DiffLagrangianPolynomialCoeffs(nOrder + 1, dREdge,
                                   (a + 1) * nOrder, dOut[l])
             IN  [co |-> AddAt(ScaleRange(left, a * nOrder,
                                          a * nOrder + nOrder + 1, w.L),
                               (a + 1) * nOrder, dTempCoeff, nOrder + 1, w.R),
                  ib |-> a * nOrder, ie |-> (a + 2) * nOrder + 1, oob |-> FALSE]

\* FluxCorrectionFunction::GetDerivatives(ParamFluxCorrectionType, nOrder, xi):
\* the derivative of the flux correction function at xi in [0, 1].  The
\* function is a collaborator of the column operators; shape selects one of
\* two polynomials standing for it.
FluxCorrectionDerivative(shape, nOrder, xi) ==
    IF shape = 1 THEN RSub(RMul(RInt(nOrder), xi), RInt(nOrder + 1))
    ELSE RAdd(RMul(xi, xi), RInt(nOrder))

\* variant of FluxBoundaryGuard: fZeroBoundaries is ignored
FluxBoundaryGuardAnyZB(fZB, nFE) == nFE # 1

\* LinearColumnDiffFEM::InitializeFluxCorrectionMethod: are the one-sided flux
\* terms of a domain boundary applied (the guard of both boundary branches)
FluxBoundaryGuard(fZB, nFE) == (~fZB) /\ (nFE # 1)

\* LinearColumnDiffFEM::InitializeFluxCorrectionMethod: the support of the row
\* of an output in element a
FluxIBegin(a, nOrder, nFE) == IF a # 0 THEN (a - 1) * nOrder ELSE a * nOrder

\* variant of FluxIEnd: the support reaches one element further
FluxIEndFurther(a, nOrder, nFE) ==
    IF a # nFE - 1 THEN (a + 3) * nOrder ELSE (a + 1) * nOrder

FluxIEnd(a, nOrder, nFE) ==
    IF a # nFE - 1 THEN (a + 2) * nOrder ELSE (a + 1) * nOrder

\* LinearColumnDiffFEM::InitializeFluxCorrectionMethod, the body of the loop
\* over l.  err: 'REta out of range' was raised; bdry: a one-sided boundary
\* flux term was added to the row.
\* variant of REtaOutOfRange: only the first interface bounds the outputs
REtaOutOfRangeBelow(x, dREdge, nIn) == x < dREdge[0]

\* the test InitializeFluxCorrectionMethod makes of an output location
REtaOutOfRange(x, dREdge, nIn) == (x < dREdge[0]) \/ (x > dREdge[nIn])

FluxCorrectionRow(eSrc, shape, nOrder, dNode, dREdge, dOut, fZB, l) ==
    LET nIn == GetRows(dNode)
        nFE == nIn \div nOrder
        nCols == IF eSrc = "Interfaces" THEN nIn + 1 ELSE nIn
        x == dOut[l]
        loc == FindElement(0, nOrder, nFE, dREdge, x)
        a == loc.a
        lo == a * nOrder
        hi == (a + 1) * nOrder
        dDeltaREta == RInt(dREdge[hi] - dREdge[lo])
        local == PutAt(ZeroRow(nCols), lo,
                     DiffLagrangianPolynomialCoeffs(nOrder, dNode, lo, x), nOrder)
        scaled == IF loc.on
                  THEN ScaleRange(PutAt(local, hi,
                           DiffLagrangianPolynomialCoeffs(nOrder, dNode, hi, x), nOrder),
                           0, nIn, RMul(RHalf, dDeltaREta))
                  ELSE ScaleRange(local, 0, nIn, dDeltaREta)
        dNodesR == RDiv(RInt(x - dREdge[lo]), dDeltaREta)
        dNodesL == RSub(ROne, dNodesR)
        dDerivR == FluxCorrectionDerivative(shape, nOrder + 1, dNodesR)
        dDerivL == RNeg(FluxCorrectionDerivative(shape, nOrder + 1, dNodesL))
        hR == RMul(RHalf, dDerivR)
        hL == RMul(RHalf, dDerivL)
        dTempCoeffLR == LagrangianPolynomialCoeffs(nOrder, dNode, lo, dREdge[lo])
        dTempCoeffRL == LagrangianPolynomialCoeffs(nOrder, dNode, lo, dREdge[hi])
        dTempCoeffLL == IF a # 0
                        THEN LagrangianPolynomialCoeffs(nOrder, dNode,
                                 (a - 1) * nOrder, dREdge[lo])
                        ELSE ZeroRow(nOrder)
        dTempCoeffRR == IF a # nFE - 1
                        THEN LagrangianPolynomialCoeffs(nOrder, dNode, hi, dREdge[hi])
                        ELSE ZeroRow(nOrder)
        bdry == FluxBoundaryGuard(fZB, nFE)
        afterL == IF a # 0
                  THEN AddAt(IF ~loc.on
                             THEN AddAt(scaled, (a - 1) * nOrder, dTempCoeffLL, nOrder, hL)
                             ELSE scaled,
                             lo, dTempCoeffLR, nOrder, RNeg(hL))
                  ELSE IF bdry
                  THEN AddAt(AddAt(scaled, lo, dTempCoeffRL, nOrder, hL),
                             hi, dTempCoeffRR, nOrder, RNeg(hL))
                  ELSE scaled
        afterR == IF a # nFE - 1
                  THEN AddAt(AddAt(afterL, hi, dTempCoeffRR, nOrder, hR),
                             lo, dTempCoeffRL, nOrder, RNeg(hR))
                  ELSE IF bdry
                  THEN AddAt(AddAt(afterL, lo, dTempCoeffLR, nOrder, hR),
                             (a - 1) * nOrder, dTempCoeffLL, nOrder, RNeg(hR))
                  ELSE afterL
    IN  IF REtaOutOfRange(x, dREdge, nIn)
        THEN [co |-> ZeroRow(nCols), ib |-> 0, ie |-> 0, oob |-> FALSE,
              err |-> TRUE, bdry |-> FALSE, a |-> a]
        ELSE [co |-> ScaleRange(afterR, 0, nIn, RDiv(ROne, dDeltaREta)),
              ib |-> FluxIBegin(a, nOrder, nFE), ie |-> FluxIEnd(a, nOrder, nFE),
              oob |-> FALSE, err |-> FALSE,
              bdry |-> (a = 0 \/ a = nFE - 1) /\ bdry, a |-> a]

\* LinearColumnDiffFEM::InitializeGLLNodes, the body of the loop over l: the
\* input is continuous, nOrder GLL nodes per element, end nodes shared
GLLNodesRow(nOrder, dNode, dOut, l) ==
    LET nIn == GetRows(dNode)
        step == nOrder - 1
        nFE == (nIn - 1) \div step
        loc == FindElement(0, step, nFE, dNode, dOut[l])
        a == loc.a
        left == PutAt(ZeroRow(nIn), a * step,
                    DiffLagrangianPolynomialCoeffs(nOrder, dNode, a * step, dOut[l]),
                    nOrder)
    IN  IF ~loc.on
        THEN [co |-> left, ib |-> a * step, ie |-> (a + 1) * step + 1, oob |-> FALSE]
        ELSE LET w == EdgeWeights(a, step, dNode, nOrder - 1)
                 dTempCoeff == DiffLagrangianPolynomialCoeffs(nOrder, dNode,
                                   (a + 1) * step, dOut[l])
             IN  [co |-> AddAt(ScaleRange(left, a * step, a * step + nOrder, w.L),
                               (a + 1) * step, dTempCoeff, nOrder, w.R),
                  ib |-> a * step, ie |-> (a + 2) * step + 1, oob |-> FALSE]

\* GaussLobattoQuadrature::GetPoints(n, x0, x1): nodes and weights of the
\* n-point Gauss-Lobatto rule on [x0, x1], for the orders with rational nodes
\* (x0 + x1 is even on the grids of this model)
GLLOrders == {2, 3}

GaussLobattoPoints(n, x0, x1) ==
    IF n = 2 THEN [k \in 0..1 |-> IF k = 0 THEN x0 ELSE x1]
    ELSE [k \in 0..2 |-> IF k = 0 THEN x0
                         ELSE IF k = 1 THEN (x0 + x1) \div 2 ELSE x1]

GaussLobattoWeights(n, x0, x1) ==
    IF n = 2 THEN [k \in 0..1 |-> Norm(x1 - x0, 2)]
    ELSE [k \in 0..2 |-> IF k = 1 THEN Norm(4 * (x1 - x0), 6) ELSE Norm(x1 - x0, 6)]

\* sum over s in from..n-1 of D[s][j] * D[s][i] * W[s]
RECURSIVE StiffnessSum(_, _, _, _, _, _)
StiffnessSum(D, W, n, j, i, from) ==
    IF from >= n THEN RZero
    ELSE RAdd(RMul(RMul(D[from][j], D[from][i]), W[from]),
              StiffnessSum(D, W, n, j, i, from + 1))

\* LinearColumnDiffDiffFEM::InitializeGLLNodes, the body of the loop over the
\* finite elements a: the coefficient matrix after element a has been added
DiffDiffGLLElement(coeff, nOrder, dNode, a) ==
    LET nIn == GetRows(dNode)
        step == nOrder - 1
        nFE == (nIn - 1) \div step
        base == a * step
        dG == GaussLobattoPoints(nOrder, dNode[base], dNode[base + step])
        dW == GaussLobattoWeights(nOrder, dNode[base], dNode[base + step])
        dLocalDiffCoeff ==
            [i \in 0..(nOrder - 1) |->
                DiffLagrangianPolynomialCoeffs(nOrder, dNode, base, dG[i])]
        dWlocal(j) ==
            LET w1 == IF (j = 0) /\ (a # 0) THEN RMul(dW[j], RInt(2)) ELSE dW[j]
            IN  IF (j = nOrder - 1) /\ (a # nFE - 1) THEN RMul(w1, RInt(2)) ELSE w1
        inner ==
            [jx \in DOMAIN coeff |-> [ix \in DOMAIN coeff[jx] |->
                IF jx >= base /\ jx <= base + step /\ ix >= base /\ ix <= base + step
                THEN RSub(coeff[jx][ix],
                          RDiv(StiffnessSum(dLocalDiffCoeff, dW, nOrder,
                                   jx - base, ix - base, 0), dWlocal(jx - base)))
                ELSE coeff[jx][ix]]]
        bottom ==
            IF a = 0
            THEN [inner EXCEPT ![0] =
                    AddAt(inner[0], 0, dLocalDiffCoeff[0], nOrder,
                          RNeg(RDiv(ROne, dW[0])))]
            ELSE inner
    IN  IF a = nFE - 1
        THEN [bottom EXCEPT ![nIn - 1] =
                AddAt(bottom[nIn - 1], base, dLocalDiffCoeff[nOrder - 1], nOrder,
                      RDiv(ROne, dW[nOrder - 1]))]
        ELSE bottom

(***************************************************************************)
(* State.                                                                  *)
(***************************************************************************)
VARIABLES
    \* --- column operator under construction (LinearColumnOperator) ---
    cpc,            \* "idle", "rows", "compose", "done", "error", "ub"
    opKind,         \* the initializer running
    arg,            \* its arguments
    m_dCoeff,       \* coefficient matrix, m_dCoeff[l][k]
    m_iBegin,       \* first column of the support of row l
    m_iEnd,         \* one past the last column of the support of row l
    l,              \* loop index (row, or finite element for DiffDiff)
    rowInfo,        \* per row: [a, on, bdry] of the rows built so far
    colException    \* text of the exception raised, or "none"

colVars == <<cpc, opKind, arg, m_dCoeff, m_iBegin, m_iEnd, l, rowInfo, colException>>

Sources == {"Levels", "Interfaces"}
OutKinds == {"levels", "interfaces", "near", "below", "above"}
\* how far below the first or above the last interface an output is put
OutsideBy == ParamEpsilon + 1

\* output locations: the levels, the interfaces, points within the
\* tolerance of the interfaces (inside the column), or the interfaces with
\* the first one moved below the column or the last one moved above it
GridREtaOut(kind, pat, p, nFE) ==
    IF kind = "levels" THEN GridREtaNode(pat, p, nFE)
    ELSE IF kind = "interfaces" THEN GridREtaREdge(pat, p, nFE)
    ELSE IF kind = "below"
    THEN [k \in 0..(nFE * p) |->
            GridREtaREdge(pat, p, nFE)[k] - (IF k = 0 THEN OutsideBy ELSE 0)]
    ELSE IF kind = "above"
    THEN [k \in 0..(nFE * p) |->
            GridREtaREdge(pat, p, nFE)[k] + (IF k = nFE * p THEN OutsideBy ELSE 0)]
    ELSE [k \in 0..(nFE * p) |->
            GridREtaREdge(pat, p, nFE)[k]
                + (IF k = nFE * p THEN -1 ELSE IF k % 2 = 0 THEN 1 ELSE -1)]

\* arguments of the FEM initializers
FEMArgs(src, p, nFE, pat, kind, fZB, shape) ==
    [eInterpSource |-> src, nVerticalOrder |-> p,
     dREtaNode |-> GridREtaNode(pat, p, nFE),
     dREtaREdge |-> GridREtaREdge(pat, p, nFE),
     dREtaOut |-> GridREtaOut(kind, pat, p, nFE),
     fZeroBoundaries |-> fZB, shape |-> shape, outKind |-> kind]

\* arguments a caller can pass that the initializers must reject: no level,
\* an interface vector that is not one longer than the level vector, an
\* order that does not divide the number of levels
Defects == {"none", "empty", "edges", "order"}

\* the calls made: the rejected arguments and the outputs outside the column
\* are tried on the grid of equal element widths (the element widths play no
\* part in either), the rejected arguments with one kind of output
InputCombination(pat, kind, fZB, d) ==
    /\ d # "none" => (pat = 0 /\ kind = "levels" /\ ~fZB)
    /\ kind \in {"below", "above"} => pat = 0

Defective(a, d) ==
    IF d = "empty" THEN [a EXCEPT !.dREtaNode = <<>>]
    ELSE IF d = "edges"
    THEN [a EXCEPT !.dREtaREdge = [k \in 0..(GetRows(a.dREtaNode) - 1) |-> @[k]]]
    ELSE IF d = "order" /\ GetRows(a.dREtaNode) % (a.nVerticalOrder + 1) # 0
    THEN [a EXCEPT !.nVerticalOrder = @ + 1]
    ELSE a

\* arguments of the GLL-node initializers: nodes of a continuous column
GLLArgs(n, nFE, pat, kind) ==
    [eInterpSource |-> "Levels", nVerticalOrder |-> n,
     dREtaNode |-> GridREtaREdge(pat, n - 1, nFE),
     dREtaREdge |-> GridREtaREdge(pat, n - 1, nFE),
     dREtaOut |-> IF kind = "levels" THEN GridREtaNode(pat, n - 1, nFE)
                  ELSE GridREtaREdge(pat, n - 1, nFE),
     fZeroBoundaries |-> FALSE, shape |-> 1, outKind |-> kind]

NoArg == [eInterpSource |-> "Levels", nVerticalOrder |-> 1, dREtaNode |-> <<>>,
          dREtaREdge |-> <<>>, dREtaOut |-> <<>>, fZeroBoundaries |-> FALSE,
          shape |-> 1, outKind |-> "levels"]

ColInit ==
    /\ cpc = "idle"
    /\ opKind = "none"
    /\ arg = NoArg
    /\ m_dCoeff = <<>>
    /\ m_iBegin = <<>>
    /\ m_iEnd = <<>>
    /\ l = 0
    /\ rowInfo = <<>>
    /\ colException = "none"

\* variant of VerifyFEMArgs: the divisibility of the level count is not checked
VerifyFEMArgsSizes(a) ==
    IF GetRows(a.dREtaNode) = 0 THEN "At least one row required for dREtaNode"
    ELSE IF GetRows(a.dREtaREdge) # GetRows(a.dREtaNode) + 1
    THEN "REtaNode / REtaREdge mismatch"
    ELSE "none"

\* the checks on the arguments shared by the three FEM initializers
VerifyFEMArgs(a) ==
    IF GetRows(a.dREtaNode) = 0 THEN "At least one row required for dREtaNode"
    ELSE IF GetRows(a.dREtaREdge) # GetRows(a.dREtaNode) + 1
    THEN "REtaNode / REtaREdge mismatch"
    ELSE IF GetRows(a.dREtaNode) % a.nVerticalOrder # 0
    THEN "Column RElements / VerticalOrder mismatch"
    ELSE "none"

\* LinearColumnOperator::Initialize(nRElementsIn, nRElementsOut)
ZeroMatrix(nCols, nRowsOut) == [r \in 0..(nRowsOut - 1) |-> ZeroRow(nCols)]
ZeroBounds(nRowsOut) == [r \in 0..(nRowsOut - 1) |-> 0]
NoInfo(nRowsOut) == [r \in 0..(nRowsOut - 1) |-> [a |-> -1, on |-> FALSE, bdry |-> FALSE]]

\* the checks on the arguments of the GLL-node initializers
VerifyGLLArgs(a) ==
    IF GetRows(a.dREtaNode) = 0 THEN "At least one row required for dREtaNode"
    ELSE IF (GetRows(a.dREtaNode) - 1) % (a.nVerticalOrder - 1) # 0
    THEN "Column (RElements-1) / (VerticalOrder-1) mismatch"
    ELSE "none"

\* entry of an initializer: check the arguments (msg: the exception they
\* raise), allocate nRowsOut rows of nCols columns, set the loop index
Begin(kind, a, msg, nCols, nRowsOut, lBegin, lEnd) ==
    /\ cpc = "idle"
    /\ opKind' = kind
    /\ arg' = a
    /\ IF msg # "none"
       THEN /\ cpc' = "error"
            /\ colException' = msg
            /\ UNCHANGED <<m_dCoeff, m_iBegin, m_iEnd, l, rowInfo>>
       ELSE /\ m_dCoeff' = ZeroMatrix(nCols, nRowsOut)
            /\ m_iBegin' = ZeroBounds(nRowsOut)
            /\ m_iEnd' = ZeroBounds(nRowsOut)
            /\ rowInfo' = NoInfo(nRowsOut)
            /\ l' = lBegin
            /\ cpc' = IF lBegin >= lEnd THEN "done" ELSE "rows"
            /\ colException' = "none"

\* a row r has been built: store it and move to the next row, to `after`
\* when it was the last one
StoreRow(r, info, lEnd, after) ==
    /\ m_dCoeff' = [m_dCoeff EXCEPT ![l] = r.co]
    /\ m_iBegin' = [m_iBegin EXCEPT ![l] = r.ib]
    /\ m_iEnd' = [m_iEnd EXCEPT ![l] = r.ie]
    /\ rowInfo' = [rowInfo EXCEPT ![l] = info]
    /\ l' = l + 1
    /\ cpc' = IF l + 1 >= lEnd THEN after ELSE "rows"
    /\ UNCHANGED <<opKind, arg, colException>>

\* the build stops: an exception (msg), or an access outside an array
StopBuild(to, msg) ==
    /\ cpc' = to
    /\ colException' = msg
    /\ UNCHANGED <<opKind, arg, m_dCoeff, m_iBegin, m_iEnd, l, rowInfo>>

Locate(nOrder, nFE, dREdge, x) == FindElement(0, nOrder, nFE, dREdge, x)

NumFE(a) == GetRows(a.dREtaNode) \div a.nVerticalOrder

\* ---- LinearColumnInterpFEM::Initialize ----
InterpInitialize ==
    \E src \in Sources, p \in 1..MaxOrder, nFE \in 1..MaxFE, pat \in Patterns,
       kind \in OutKinds, fZB \in BOOLEAN, d \in Defects :
        /\ InputCombination(pat, kind, fZB, d)
        /\ LET a == Defective(FEMArgs(src, p, nFE, pat, kind, fZB, 1), d)
           IN  Begin("Interp", a, VerifyFEMArgs(a),
                  IF src = "Interfaces" THEN GetRows(a.dREtaNode) + 1
                  ELSE GetRows(a.dREtaNode),
                  GetRows(a.dREtaOut),
                  InterpLBegin(a.dREtaREdge, a.dREtaOut, fZB),
                  InterpLEnd(a.dREtaREdge, a.dREtaOut, fZB))

InterpStep ==
    /\ cpc = "rows"
    /\ opKind = "Interp"
    /\ LET r == InterpRow(arg.eInterpSource, arg.nVerticalOrder, arg.dREtaNode,
                          arg.dREtaREdge, arg.dREtaOut, l)
           loc == Locate(arg.nVerticalOrder, NumFE(arg), arg.dREtaREdge,
                         arg.dREtaOut[l])
       IN  IF r.oob THEN StopBuild("ub", "none")
           ELSE StoreRow(r, [a |-> loc.a, on |-> loc.on, bdry |-> FALSE],
                         InterpLEnd(arg.dREtaREdge, arg.dREtaOut,
                                    arg.fZeroBoundaries), "done")

\* ---- LinearColumnDiffFEM::InitializeInterfaceMethod ----
InterfaceMethodInitialize ==
    \E src \in Sources, p \in 1..MaxOrder, nFE \in 1..MaxFE, pat \in Patterns,
       kind \in OutKinds, fZB \in BOOLEAN, d \in Defects :
        /\ InputCombination(pat, kind, fZB, d)
        /\ LET a == Defective(FEMArgs(src, p, nFE, pat, kind, fZB, 1), d)
           IN  Begin("DiffInterface", a, VerifyFEMArgs(a),
                  GetRows(a.dREtaNode) + 1, GetRows(a.dREtaOut),
                  0, GetRows(a.dREtaOut))

InterfaceMethodStep ==
    /\ cpc = "rows"
    /\ opKind = "DiffInterface"
    /\ LET r == InterfaceMethodRow(arg.nVerticalOrder, arg.dREtaNode,
                                   arg.dREtaREdge, arg.dREtaOut, l)
           loc == Locate(arg.nVerticalOrder, NumFE(arg), arg.dREtaREdge,
                         arg.dREtaOut[l])
       IN  StoreRow(r, [a |-> loc.a, on |-> loc.on, bdry |-> FALSE],
                    GetRows(arg.dREtaOut),
                    IF arg.eInterpSource = "Levels" THEN "compose" ELSE "done")

\* ---- LinearColumnDiffFEM::InitializeFluxCorrectionMethod ----
FluxCorrectionInitialize ==
    \E src \in Sources, p \in 1..MaxOrder, nFE \in 1..MaxFE, pat \in Patterns,
       kind \in OutKinds, fZB \in BOOLEAN, shape \in {1, 2}, d \in Defects :
        /\ InputCombination(pat, kind, fZB, d)
        /\ LET a == Defective(FEMArgs(src, p, nFE, pat, kind, fZB, shape), d)
           IN  Begin("DiffFlux", a, VerifyFEMArgs(a),
                  IF src = "Interfaces" THEN GetRows(a.dREtaNode) + 1
                  ELSE GetRows(a.dREtaNode),
                  GetRows(a.dREtaOut), 0, GetRows(a.dREtaOut))

FluxCorrectionStep ==
    /\ cpc = "rows"
    /\ opKind = "DiffFlux"
    /\ LET r == FluxCorrectionRow(arg.eInterpSource, arg.shape, arg.nVerticalOrder,
                                  arg.dREtaNode, arg.dREtaREdge, arg.dREtaOut,
                                  arg.fZeroBoundaries, l)
           loc == Locate(arg.nVerticalOrder, NumFE(arg), arg.dREtaREdge,
                         arg.dREtaOut[l])
       IN  IF r.err THEN StopBuild("error", "REta out of range")
           ELSE StoreRow(r, [a |-> loc.a, on |-> loc.on, bdry |-> r.bdry],
                         GetRows(arg.dREtaOut), "done")

\* the operator LinearColumnInterpFEM::Initialize builds, as a whole: the rows
\* outside its loop stay as allocated
InterpOperator(eSrc, nOrder, dNode, dREdge, dOut, fZB) ==
    [r \in 0..(GetRows(dOut) - 1) |->
        IF r >= InterpLBegin(dREdge, dOut, fZB) /\ r < InterpLEnd(dREdge, dOut, fZB)
        THEN InterpRow(eSrc, nOrder, dNode, dREdge, dOut, r)
        ELSE [co |-> ZeroRow(IF eSrc = "Interfaces" THEN GetRows(dNode) + 1
                             ELSE GetRows(dNode)),
              ib |-> 0, ie |-> 0, oob |-> FALSE]]

\* sum over k in from..n-1 of row[k] * op[k].co[j]
RECURSIVE ComposeSum(_, _, _, _, _)
ComposeSum(row, op, j, from, n) ==
    IF from >= n THEN RZero
    ELSE RAdd(RMul(row[from], op[from].co[j]), ComposeSum(row, op, j, from + 1, n))

SetMin(S) == CHOOSE x \in S : \A y \in S : x <= y
SetMax(S) == CHOOSE x \in S : \A y \in S : x >= y

\* LinearColumnOperator::ComposeWith(op): the matrix product with op, the
\* support of a row being the union of the supports of the rows of op it uses
ComposeCoeff(coeff, op, nColsOp) ==
    [r \in DOMAIN coeff |-> [j \in 0..(nColsOp - 1) |->
        ComposeSum(coeff[r], op, j, 0, GetRows(coeff[r]))]]

ComposeBegin(ib, ie, op) ==
    [r \in DOMAIN ib |->
        IF ib[r] >= ie[r] THEN 0 ELSE SetMin({op[k].ib : k \in ib[r]..(ie[r] - 1)})]

ComposeEnd(ib, ie, op) ==
    [r \in DOMAIN ib |->
        IF ib[r] >= ie[r] THEN 0 ELSE SetMax({op[k].ie : k \in ib[r]..(ie[r] - 1)})]

\* InitializeInterfaceMethod, source levels: compose the derivative from
\* interfaces with the interpolation from levels to interfaces
InterfaceMethodCompose ==
    /\ cpc = "compose"
    /\ LET opInterp == InterpOperator("Levels", arg.nVerticalOrder, arg.dREtaNode,
                           arg.dREtaREdge, arg.dREtaREdge, arg.fZeroBoundaries)
       IN  IF \E r \in DOMAIN opInterp : opInterp[r].oob
           THEN StopBuild("ub", "none")
           ELSE /\ m_dCoeff' = ComposeCoeff(m_dCoeff, opInterp, GetRows(arg.dREtaNode))
                /\ m_iBegin' = ComposeBegin(m_iBegin, m_iEnd, opInterp)
                /\ m_iEnd' = ComposeEnd(m_iBegin, m_iEnd, opInterp)
                /\ cpc' = "done"
                /\ UNCHANGED <<opKind, arg, l, rowInfo, colException>>

\* ---- LinearColumnDiffFEM::InitializeGLLNodes ----
GLLNodesInitialize ==
    \E n \in 2..(MaxOrder + 1), nFE \in 1..MaxFE, pat \in Patterns,
       kind \in {"levels", "interfaces"} :
        LET a == GLLArgs(n, nFE, pat, kind)
        IN  Begin("DiffGLL", a, VerifyGLLArgs(a), GetRows(a.dREtaNode),
                  GetRows(a.dREtaOut), 0, GetRows(a.dREtaOut))

GLLNodesStep ==
    /\ cpc = "rows"
    /\ opKind = "DiffGLL"
    /\ LET r == GLLNodesRow(arg.nVerticalOrder, arg.dREtaNode, arg.dREtaOut, l)
           loc == Locate(arg.nVerticalOrder - 1,
                         (GetRows(arg.dREtaNode) - 1) \div (arg.nVerticalOrder - 1),
                         arg.dREtaNode, arg.dREtaOut[l])
       IN  StoreRow(r, [a |-> loc.a, on |-> loc.on, bdry |-> FALSE],
                    GetRows(arg.dREtaOut), "done")

\* ---- LinearColumnDiffDiffFEM::InitializeGLLNodes ----
DiffDiffGLLInitialize ==
    \E n \in GLLOrders, nFE \in 1..MaxFE, pat \in Patterns :
        LET a == GLLArgs(n, nFE, pat, "interfaces")
        IN  Begin("DiffDiffGLL", a, VerifyGLLArgs(a), GetRows(a.dREtaNode),
                  GetRows(a.dREtaNode), 0,
                  (GetRows(a.dREtaNode) - 1) \div (n - 1))

\* one finite element of the loop over a (l is the element index)
DiffDiffGLLStep ==
    /\ cpc = "rows"
    /\ opKind = "DiffDiffGLL"
    /\ m_dCoeff' = DiffDiffGLLElement(m_dCoeff, arg.nVerticalOrder, arg.dREtaNode, l)
    /\ l' = l + 1
    /\ cpc' = IF l + 1 >= (GetRows(arg.dREtaNode) - 1) \div (arg.nVerticalOrder - 1)
              THEN "done" ELSE "rows"
    /\ UNCHANGED <<opKind, arg, m_iBegin, m_iEnd, rowInfo, colException>>

(***************************************************************************)
(* The driver: main() of ThermalBubbleCartesianTest.cpp.                   *)
(***************************************************************************)
\* largest number of time steps model.Go() takes
MaxSteps == 3

VARIABLES
    mpc,            \* position in main()
    fault,          \* input: where an Exception is raised, and its text
    nInitialize,    \* calls of TempestInitialize
    nDeinitialize,  \* calls of TempestDeinitialize
    executed,       \* the steps of the try block that completed, in order
    stdout,         \* what was printed
    exception,      \* the Exception in flight or caught, or "none"
    nSteps,         \* input: time steps of the run
    stepsDone,      \* time steps taken by Go
    exitCode        \* exit code of the process, -1 while it runs

mainVars == <<mpc, fault, nInitialize, nDeinitialize, executed, stdout, exception,
              nSteps, stepsDone, exitCode>>

NoFault == [at |-> "none", step |-> 0, text |-> "none"]

\* the Exceptions the steps of the try block can raise
Faults ==
    {[at |-> "parse", step |-> 0, text |-> t] :
        t \in {"Invalid command line argument", "Missing argument value"}}
    \cup {[at |-> "setup", step |-> 0, text |-> t] :
        t \in {"Column RElements / VerticalOrder mismatch",
               "Coordinate scale height exceeds model top."}}
    \cup {[at |-> "settestcase", step |-> 0, text |-> t] :
        t \in {"TestCase topography exceeds model top.",
               "VerticalOrder / Dimensionality mismatch",
               "Error in normalized areas"}}
    \cup {[at |-> "go", step |-> k, text |-> t] :
        k \in 1..MaxSteps, t \in {"JFNK failed to converge", "Output file error"}}
    \cup {[at |-> "norms", step |-> 0, text |-> "Output file error"]}

MainInit ==
    /\ mpc = "start"
    /\ fault \in Faults \cup {NoFault}
    /\ nSteps \in 1..MaxSteps
    /\ (fault.at = "go" => fault.step <= nSteps)
    /\ nInitialize = 0
    /\ nDeinitialize = 0
    /\ executed = <<>>
    /\ stdout = <<>>
    /\ exception = "none"
    /\ stepsDone = 0
    /\ exitCode = -1

\* a step of the try block: it raises the Exception of the fault placed at
\* it, otherwise completes, prints its banner and goes on to `next`
TryStep(here, name, banner, next) ==
    /\ mpc = here
    /\ IF fault.at = name
       THEN /\ exception' = fault.text
            /\ mpc' = "catch"
            /\ UNCHANGED <<executed, stdout>>
       ELSE /\ executed' = Append(executed, name)
            /\ stdout' = IF banner = "" THEN stdout ELSE Append(stdout, banner)
            /\ mpc' = next
            /\ UNCHANGED exception
    /\ UNCHANGED <<fault, nInitialize, nDeinitialize, nSteps, stepsDone, exitCode>>

\* TempestInitialize(&argc, &argv)
MainTempestInitialize ==
    /\ mpc = "start"
    /\ nInitialize' = nInitialize + 1
    /\ mpc' = "parse"
    /\ UNCHANGED <<fault, nDeinitialize, executed, stdout, exception, nSteps,
                   stepsDone, exitCode>>

\* BeginTempestCommandLine ... ParseCommandLine ... EndCommandLine
MainParseCommandLine == TryStep("parse", "parse", "", "setup")

\* new ThermalBubbleCartesianTest, Model, TempestSetupCartesianModel,
\* SetReferenceLength
MainSetupModel == TryStep("setup", "setup", "MODEL SETUP", "settestcase")

\* model.SetTestCase(test)
MainSetTestCase == TryStep("settestcase", "settestcase", "Done", "go")

\* model.Go(): one time step, or the Exception of the fault placed at it
MainGoStep ==
    /\ mpc = "go"
    /\ stepsDone < nSteps
    /\ IF fault.at = "go" /\ fault.step = stepsDone + 1
       THEN /\ exception' = fault.text
            /\ mpc' = "catch"
            /\ UNCHANGED stepsDone
       ELSE /\ stepsDone' = stepsDone + 1
            /\ UNCHANGED <<exception, mpc>>
    /\ UNCHANGED <<fault, nInitialize, nDeinitialize, executed, stdout, nSteps,
                   exitCode>>

\* model.Go() returns
MainGoReturn ==
    /\ stepsDone = nSteps
    /\ TryStep("go", "go_return", "SIMULATION", "norms")

\* model.ComputeErrorNorms()
MainComputeErrorNorms == TryStep("norms", "norms", "RESULTS", "deinit")

\* a handler that swallows the Exception without printing it
MainCatchSilent ==
    /\ mpc = "catch"
    /\ mpc' = "deinit"
    /\ UNCHANGED <<fault, nInitialize, nDeinitialize, executed, stdout, exception,
                   nSteps, stepsDone, exitCode>>

\* catch (Exception & e) { std::cout << e.ToString() << std::endl; }
MainCatch ==
    /\ mpc = "catch"
    /\ stdout' = Append(stdout, exception)
    /\ mpc' = "deinit"
    /\ UNCHANGED <<fault, nInitialize, nDeinitialize, executed, exception, nSteps,
                   stepsDone, exitCode>>

\* the value main() returns: control reaches the end of main without a
\* return statement
MainReturnValue(e) == 0

\* TempestDeinitialize(), and the end of main
MainTempestDeinitialize ==
    /\ mpc = "deinit"
    /\ nDeinitialize' = nDeinitialize + 1
    /\ exitCode' = MainReturnValue(exception)
    /\ mpc' = "exited"
    /\ UNCHANGED <<fault, nInitialize, executed, stdout, exception, nSteps,
                   stepsDone>>

\* main() has not been started
MainIdle ==
    /\ mpc = "idle"
    /\ fault = NoFault
    /\ nSteps = 0
    /\ nInitialize = 0
    /\ nDeinitialize = 0
    /\ executed = <<>>
    /\ stdout = <<>>
    /\ exception = "none"
    /\ stepsDone = 0
    /\ exitCode = -1

(***************************************************************************)
(* The grid patch: GridPatchCartesianGLL.                                  *)
(* The patch has one element of horizontal order 2 in each direction and a *)
(* halo of one node, and a column of two levels (three interfaces).        *)
(* Reals are rationals; NaN stands for the result of a division by zero.   *)
(***************************************************************************)
\* m_dGDim: the box, m_dGDim[6] = z_top (indexed from 1)
m_dGDim == <<0, 4, 0, 4, 0, 12>>
GetZtop == m_dGDim[6]

m_nHorizontalOrder == 2
HaloElements == 1
\* m_box: total widths and the interior range of the node indices
GetATotalWidth == m_nHorizontalOrder + 2 * HaloElements
GetBTotalWidth == m_nHorizontalOrder + 2 * HaloElements
GetAInteriorBegin == HaloElements
GetBInteriorBegin == HaloElements
GetElementCountA == 1
GetElementCountB == 1
GetElementDeltaA == (m_dGDim[2] - m_dGDim[1]) \div GetElementCountA
GetElementDeltaB == (m_dGDim[4] - m_dGDim[3]) \div GetElementCountB
NodesA == 0..(GetATotalWidth - 1)
NodesB == 0..(GetBTotalWidth - 1)
\* m_box.GetANode(i), m_box.GetBNode(j): the coordinate of a node
GetANode(i) == m_dGDim[1] + (i - GetAInteriorBegin) * GetElementDeltaA
GetBNode(j) == m_dGDim[3] + (j - GetBInteriorBegin) * GetElementDeltaB

\* the column of the grid: m_grid.GetRElements(), GetREtaLevel(k),
\* GetREtaInterface(k)
GetRElements == 2
Levels == 0..(GetRElements - 1)
Interfaces == 0..GetRElements
GetREtaLevel(k) == Norm(2 * k + 1, 2 * GetRElements)
GetREtaInterface(k) == Norm(k, GetRElements)

\* number of state slots InitializeData allocates, and the components
NumSlots == 2
Slots == 0..(NumSlots - 1)
UIx == 0
VIx == 1
TIx == 2
WIx == 3
RIx == 4
Components == 0..4

NaN == <<0, 0>>
IsNaN(x) == x[2] = 0
\* arithmetic of doubles on rationals and NaN
DAdd(x, y) == IF IsNaN(x) \/ IsNaN(y) THEN NaN ELSE RAdd(x, y)
DSub(x, y) == IF IsNaN(x) \/ IsNaN(y) THEN NaN ELSE RSub(x, y)
DMul(x, y) == IF IsNaN(x) \/ IsNaN(y) THEN NaN ELSE RMul(x, y)
DDiv(x, y) == IF IsNaN(x) \/ IsNaN(y) \/ y[1] = 0 THEN NaN ELSE RDiv(x, y)
DNeg(x) == IF IsNaN(x) THEN NaN ELSE RNeg(x)
\* x >= y
RGeq(x, y) == x[1] * y[2] >= y[1] * x[2]

\* m_grid.EvaluateVerticalStretchF(dREta, dREtaStretch, dDxREtaStretch): the
\* stretch function F and its derivative; "uniform" is F(x) = x, "stretched"
\* is the monotone map F(x) = x (1 + x) / 2 of [0, 1] onto itself
Stretches == {"uniform", "stretched"}
StretchF(kind, dREta) ==
    IF kind = "uniform" THEN dREta
    ELSE RMul(RHalf, RMul(dREta, RAdd(ROne, dREta)))
StretchDxF(kind, dREta) ==
    IF kind = "uniform" THEN ROne
    ELSE RMul(RHalf, RAdd(ROne, RMul(RInt(2), dREta)))

\* test.EvaluateTopography(phys, x, y) of the test cases of the model
TopoCases == {"flat", "hill", "peakInterior", "peakHalo"}
TestTopography(case, dX, dY) ==
    IF case = "flat" THEN 0
    ELSE IF case = "peakInterior" /\ dX = GetANode(GetAInteriorBegin)
            /\ dY = GetBNode(GetBInteriorBegin + 1) THEN GetZtop
    ELSE IF case = "peakHalo" /\ dX = GetANode(GetATotalWidth - 1)
            /\ dY = GetBNode(GetBTotalWidth - 1) THEN GetZtop + 1
    ELSE (dX - GetANode(0)) \div 2 + (dY - GetBNode(0)) \div 4

\* test.EvaluatePointwiseState, test.EvaluateReferenceState and
\* test.EvaluateRayleighStrength at height dZ over (dX, dY)
TestPointwiseState(dZ, dX, dY) ==
    [c \in Components |->
        IF c = UIx THEN RInt(dX + 5)
        ELSE IF c = VIx THEN RInt(dY + 6)
        ELSE IF c = TIx THEN RAdd(RInt(300), dZ)
        ELSE IF c = WIx THEN RInt(7)
        ELSE RInt(2)]
TestReferenceState(dZ, dX, dY) ==
    [c \in Components |-> IF c = TIx THEN RInt(300) ELSE IF c = RIx THEN RInt(2)
                          ELSE RZero]
TestRayleighStrength(dZ, dX, dY) == RDiv(dZ, RInt(GetZtop))

\* eqns.ConvertComponents: primitive (u, v, theta, w, rho) to conservative
\* (rho u, rho v, rho theta, rho w, rho)
ConvertComponents(dState) ==
    [c \in Components |-> IF c = RIx THEN dState[c] ELSE RMul(dState[RIx], dState[c])]

\* dDxBasis1D[s][i] of the grid: the derivative of the basis function of node
\* s at node i of the reference element [0, 1], horizontal order 2
dDxBasis1D == [sb \in 0..1 |-> [ib \in 0..1 |-> IF sb = 0 THEN RInt(-1) ELSE ROne]]

\* GaussLobattoQuadrature::GetPoints(m_nHorizontalOrder, 0.0, 1.0, dGL, dWL)
dWL == GaussLobattoWeights(m_nHorizontalOrder, 0, 1)

\* the tolerance of the check of the normalized areas
AreaTolerance == Norm(1, 1000)
\* m_grid.GetREtaLevelsNormArea(), m_grid.GetREtaInterfacesNormArea(): the
\* weights sum to one ("exact"), to one plus the tolerance ("within"), or to
\* one plus or minus twice the tolerance ("above", "below")
AreaCases == {"exact", "within", "above", "below"}
AreaDefect(case) ==
    IF case = "exact" THEN RZero
    ELSE IF case = "within" THEN AreaTolerance
    ELSE IF case = "above" THEN RMul(RInt(2), AreaTolerance)
    ELSE RMul(RInt(-2), AreaTolerance)
GetREtaLevelsNormArea(case) ==
    [k \in Levels |-> IF k = GetRElements - 1
                      THEN RAdd(Norm(1, GetRElements), AreaDefect(case))
                      ELSE Norm(1, GetRElements)]
GetREtaInterfacesNormArea(case) ==
    [k \in Interfaces |-> IF k = 0 THEN Norm(1, 2 * GetRElements)
                          ELSE IF k = GetRElements
                          THEN RAdd(Norm(1, 2 * GetRElements), AreaDefect(case))
                          ELSE Norm(1, GetRElements)]
RAbs(x) == <<Abs(x[1]), x[2]>>
\* fabs(dSum - 1.0) > 1.0e-13
AreaSumOff(dW, n) ==
    LET dSum == RSum(dW, 0, n)
        dErr == RAbs(RSub(dSum, ROne))
    IN  ~RGeq(AreaTolerance, dErr)

Staggerings == {"Levels", "Interfaces", "CharneyPhillips"}
\* the largest topography heights the constructor is given
TopoHeights == {RInt(1), Norm(6, 5), RInt(2)}
\* the dimensionalities of the equation set and the vertical orders
Dimensionalities == {2, 3}
VerticalOrders == {1, 2}
\* the indices EvaluateTestCase is given: the slots, the first index past
\* them and the index before the first
DataIndices == -1..NumSlots

\* The grid takes a patch through its calls in this order, any of them left
\* out or repeated: EvaluateTopography, EvaluateGeometricTerms,
\* EvaluateTestCase, ApplyBoundaryConditions, InterpolateData.
Rank(op) ==
    IF op = "EvaluateTopography" THEN 1
    ELSE IF op = "EvaluateGeometricTerms" THEN 2
    ELSE IF op = "EvaluateTestCase" THEN 3
    ELSE IF op = "ApplyBoundaryConditions" THEN 4
    ELSE 5

VARIABLES
    \* --- the patch (GridPatchCartesianGLL) ---
    ppc,                \* "constructed", "ready", "error"
    staggering,         \* m_grid.GetVerticalStaggering()
    fCovariant,         \* the build defines USE_COVARIANT_VELOCITIES
    stretch,            \* the vertical stretch of the grid
    testCase,           \* the topography of the test case
    areaNode, areaEdge, \* the normalized areas of the grid
    fRayleigh,          \* test.HasRayleighFriction()
    fRefState,          \* m_grid.HasReferenceState()
    nDim,               \* GetEquationSet().GetDimensionality()
    m_nVerticalOrder,
    m_dTopoHeight,
    phase,              \* how far the grid has taken the patch, see Rank
    m_dSL,
    m_dataLon, m_dataLat,
    m_dataTopography, m_dataTopographyDeriv,
    geom2D,             \* the 2D metric arrays, geom2D[iA][iB].<array>
    geomNode,           \* the arrays on levels, geomNode[k][iA][iB].<array>
    geomREdge,          \* the arrays on interfaces
    m_dataZLevels, m_dataZInterfaces,
    m_dataRayleighStrengthNode, m_dataRayleighStrengthREdge,
    m_datavecStateNode, m_datavecStateREdge,
    m_dataRefStateNode, m_dataRefStateREdge,
    dInterpData,        \* the array InterpolateData writes for its caller
    m_dataVorticity, m_dataDivergence,
    patchException,     \* the text of the Exception raised, or "none"
    lastCall            \* the call that acted last, with its arguments

patchConfig == <<staggering, fCovariant, stretch, testCase, areaNode, areaEdge, fRayleigh,
                 fRefState, nDim, m_nVerticalOrder, m_dTopoHeight>>
patchGeom == <<geom2D, geomNode, geomREdge>>
patchTopo == <<m_dataTopography, m_dataTopographyDeriv>>
patchHeights == <<m_dataZLevels, m_dataZInterfaces>>
patchRayleigh == <<m_dataRayleighStrengthNode, m_dataRayleighStrengthREdge>>
patchState == <<m_datavecStateNode, m_datavecStateREdge>>
patchRefState == <<m_dataRefStateNode, m_dataRefStateREdge>>
patchLonLat == <<m_dSL, m_dataLon, m_dataLat>>
patchCurlDiv == <<m_dataVorticity, m_dataDivergence>>
patchVars == <<ppc, phase, patchConfig, patchLonLat, patchTopo, patchGeom, patchHeights,
               patchRayleigh, patchState, patchRefState, dInterpData, patchCurlDiv,
               patchException, lastCall>>

\* arrays as DataMatrix / DataMatrix3D allocate them: filled with zeros
Zero2D == [i \in NodesA |-> [j \in NodesB |-> RZero]]
Zero3D(K) == [k \in K |-> Zero2D]
RZero3 == <<RZero, RZero, RZero>>
ZeroGeom2D ==
    [i \in NodesA |-> [j \in NodesB |->
        [m_dataJacobian2D |-> RZero,
         m_dataContraMetric2DA |-> <<RZero, RZero>>,
         m_dataContraMetric2DB |-> <<RZero, RZero>>,
         m_dataCovMetric2DA |-> <<RZero, RZero>>,
         m_dataCovMetric2DB |-> <<RZero, RZero>>]]]
ZeroGeomPoint ==
    [m_dataJacobian |-> RZero, m_dataElementArea |-> RZero,
     m_dataContraMetricA |-> RZero3, m_dataContraMetricB |-> RZero3,
     m_dataContraMetricXi |-> RZero3,
     m_dataCovMetricA |-> RZero3, m_dataCovMetricB |-> RZero3,
     m_dataCovMetricXi |-> RZero3, m_dataDerivR |-> RZero3]
ZeroGeom(K) == [k \in K |-> [i \in NodesA |-> [j \in NodesB |-> ZeroGeomPoint]]]
ZeroState(K) == [c \in Components |-> Zero3D(K)]

NoCall == [op |-> "none"]

\* no array of the patch is allocated and no call was made
PatchUnbuilt ==
    /\ ppc = "constructed"
    /\ phase = 0
    /\ m_dSL = RZero
    /\ m_dataLon = <<>>
    /\ m_dataLat = <<>>
    /\ m_dataTopography = <<>>
    /\ m_dataTopographyDeriv = <<>>
    /\ geom2D = <<>>
    /\ geomNode = <<>>
    /\ geomREdge = <<>>
    /\ m_dataZLevels = <<>>
    /\ m_dataZInterfaces = <<>>
    /\ m_dataRayleighStrengthNode = <<>>
    /\ m_dataRayleighStrengthREdge = <<>>
    /\ m_datavecStateNode = <<>>
    /\ m_datavecStateREdge = <<>>
    /\ m_dataRefStateNode = <<>>
    /\ m_dataRefStateREdge = <<>>
    /\ dInterpData = <<>>
    /\ m_dataVorticity = <<>>
    /\ m_dataDivergence = <<>>
    /\ patchException = "none"
    /\ lastCall = NoCall

\* the patch after its constructor: the configuration is set, no array is
\* allocated
PatchInit ==
    /\ staggering \in Staggerings
    /\ fCovariant \in BOOLEAN
    /\ stretch \in Stretches
    /\ testCase \in TopoCases
    /\ areaNode \in AreaCases
    /\ areaEdge \in AreaCases
    /\ fRayleigh \in BOOLEAN
    /\ fRefState \in BOOLEAN
    /\ nDim \in Dimensionalities
    /\ m_nVerticalOrder \in VerticalOrders
    /\ m_dTopoHeight \in TopoHeights
    /\ PatchUnbuilt

\* the patch of a run that builds no patch
PatchIdle ==
    /\ PatchUnbuilt
    /\ staggering = "Levels"
    /\ fCovariant = FALSE
    /\ stretch = "uniform"
    /\ testCase = "flat"
    /\ areaNode = "exact"
    /\ areaEdge = "exact"
    /\ fRayleigh = FALSE
    /\ fRefState = TRUE
    /\ nDim = 3
    /\ m_nVerticalOrder = 1
    /\ m_dTopoHeight = RInt(1)

\* _EXCEPTIONT(text): the call ends, the Exception leaves the patch
Raise(text) ==
    /\ ppc' = "error"
    /\ patchException' = text

Return ==
    /\ ppc' = "ready"
    /\ UNCHANGED patchException

\* variant of ScaleHeightExceeds: a scale height equal to the model top passes
ScaleHeightAbove(dSL) == ~RGeq(RInt(GetZtop), dSL)

\* the test InitializeDataLocal makes of the scale height: m_dSL >= GetZtop()
ScaleHeightExceeds(dSL) == RGeq(dSL, RInt(GetZtop))

\* GridPatchCartesianGLL::InitializeDataLocal
InitializeDataLocal ==
    /\ ppc = "constructed"
    /\ lastCall' = [op |-> "InitializeDataLocal"]
       \* GridPatch::InitializeDataLocal allocates the arrays
    /\ m_dataTopography' = Zero2D
    /\ m_dataTopographyDeriv' = <<Zero2D, Zero2D>>
    /\ geom2D' = ZeroGeom2D
    /\ geomNode' = ZeroGeom(Levels)
    /\ geomREdge' = ZeroGeom(Interfaces)
    /\ m_dataZLevels' = Zero3D(Levels)
    /\ m_dataZInterfaces' = Zero3D(Interfaces)
    /\ m_dataRayleighStrengthNode' = Zero3D(Levels)
    /\ m_dataRayleighStrengthREdge' = Zero3D(Interfaces)
    /\ m_datavecStateNode' = [n \in Slots |-> ZeroState(Levels)]
    /\ m_datavecStateREdge' = [n \in Slots |-> ZeroState(Interfaces)]
    /\ m_dataRefStateNode' = ZeroState(Levels)
    /\ m_dataRefStateREdge' = ZeroState(Interfaces)
    /\ m_dataVorticity' = Zero3D(Levels)
    /\ m_dataDivergence' = Zero3D(Levels)
    /\ m_dataLon' = [i \in NodesA |-> [j \in NodesB |-> GetANode(i)]]
    /\ m_dataLat' = [i \in NodesA |-> [j \in NodesB |-> GetBNode(j)]]
    /\ m_dSL' = RMul(RInt(10), m_dTopoHeight)
    /\ IF ScaleHeightExceeds(m_dSL')
       THEN Raise("Coordinate scale height exceeds model top.")
       ELSE Return
    /\ UNCHANGED <<phase, patchConfig, dInterpData>>

\* position of node (i, j) in the order of the loops over the total widths
ScanOrder(i, j) == i * GetBTotalWidth + j
AllNodes == NodesA \X NodesB

\* variant of SampleTopography: only the nodes of the elements are compared
\* with z_top
SampleTopographyInterior(case, dLon, dLat, dOld) ==
    LET dValue(n) == TestTopography(case, dLon[n[1]][n[2]], dLat[n[1]][n[2]])
        offenders == {n \in AllNodes :
                         /\ dValue(n) >= GetZtop
                         /\ n[1] >= GetAInteriorBegin /\ n[1] < GetATotalWidth - HaloElements
                         /\ n[2] >= GetBInteriorBegin /\ n[2] < GetBTotalWidth - HaloElements}
        first == CHOOSE n \in offenders :
                     \A o \in offenders : ScanOrder(n[1], n[2]) <= ScanOrder(o[1], o[2])
        written(n) == offenders = {} \/ ScanOrder(n[1], n[2]) <= ScanOrder(first[1], first[2])
    IN  [raised |-> offenders # {},
         stop |-> IF offenders = {} THEN GetATotalWidth * GetBTotalWidth
                  ELSE ScanOrder(first[1], first[2]),
         topo |-> [i \in NodesA |-> [j \in NodesB |->
                      IF written(<<i, j>>) THEN RInt(dValue(<<i, j>>)) ELSE dOld[i][j]]]]

\* The loop that samples the topography at the coordinates dLon, dLat of every
\* node and raises at the first value that reaches z_top: the array after the
\* loop (values up to and including the offending node are written) and the
\* flag that the Exception was raised.
SampleTopography(case, dLon, dLat, dOld) ==
    LET dValue(n) == TestTopography(case, dLon[n[1]][n[2]], dLat[n[1]][n[2]])
        offenders == {n \in AllNodes : dValue(n) >= GetZtop}
        first == CHOOSE n \in offenders :
                     \A o \in offenders : ScanOrder(n[1], n[2]) <= ScanOrder(o[1], o[2])
        written(n) == offenders = {} \/ ScanOrder(n[1], n[2]) <= ScanOrder(first[1], first[2])
    IN  [raised |-> offenders # {},
         stop |-> IF offenders = {} THEN GetATotalWidth * GetBTotalWidth
                  ELSE ScanOrder(first[1], first[2]),
         topo |-> [i \in NodesA |-> [j \in NodesB |->
                      IF written(<<i, j>>) THEN RInt(dValue(<<i, j>>)) ELSE dOld[i][j]]]]

BoxLon == [i \in NodesA |-> [j \in NodesB |-> GetANode(i)]]
BoxLat == [i \in NodesA |-> [j \in NodesB |-> GetBNode(j)]]

\* nodes of the elements of the patch: the interior
InElementsA(iA) ==
    iA >= GetAInteriorBegin /\ iA < GetAInteriorBegin + GetElementCountA * m_nHorizontalOrder
InElementsB(iB) ==
    iB >= GetBInteriorBegin /\ iB < GetBInteriorBegin + GetElementCountB * m_nHorizontalOrder
ElementBeginA(iA) ==
    GetAInteriorBegin + ((iA - GetAInteriorBegin) \div m_nHorizontalOrder) * m_nHorizontalOrder
ElementBeginB(iB) ==
    GetBInteriorBegin + ((iB - GetBInteriorBegin) \div m_nHorizontalOrder) * m_nHorizontalOrder

\* sum over s in from..m_nHorizontalOrder-1 of dDxBasis1D[s][i] * f[s]
RECURSIVE BasisSum(_, _, _)
BasisSum(f, i, from) ==
    IF from >= m_nHorizontalOrder THEN RZero
    ELSE RAdd(RMul(dDxBasis1D[from][i], f[from]), BasisSum(f, i, from + 1))

\* the derivatives of the topography at the nodes of the elements
TopographyDeriv(topo, dOld) ==
    LET dDaZs(iA, iB) ==
            LET e == ElementBeginA(iA)
            IN  RDiv(BasisSum([sb \in 0..(m_nHorizontalOrder - 1) |-> topo[e + sb][iB]],
                              iA - e, 0), RInt(GetElementDeltaA))
        dDbZs(iA, iB) ==
            LET e == ElementBeginB(iB)
            IN  RDiv(BasisSum([sb \in 0..(m_nHorizontalOrder - 1) |-> topo[iA][e + sb]],
                              iB - e, 0), RInt(GetElementDeltaB))
    IN  <<[i \in NodesA |-> [j \in NodesB |->
              IF InElementsA(i) /\ InElementsB(j) THEN dDaZs(i, j) ELSE dOld[1][i][j]]],
          [i \in NodesA |-> [j \in NodesB |->
              IF InElementsA(i) /\ InElementsB(j) THEN dDbZs(i, j) ELSE dOld[2][i][j]]]>>

\* the body of EvaluateTopography: the arrays it leaves and whether it raised
TopographyResult(case, dOldTopo, dOldDeriv) ==
    LET scan == SampleTopography(case, BoxLon, BoxLat, dOldTopo)
    IN  [raised |-> scan.raised,
         topo |-> scan.topo,
         deriv |-> IF scan.raised THEN dOldDeriv ELSE TopographyDeriv(scan.topo, dOldDeriv)]

\* the grid makes the call op
Call(op) ==
    /\ ppc = "ready"
    /\ phase <= Rank(op)
    /\ phase' = Rank(op)

\* GridPatchCartesianGLL::EvaluateTopography(test)
EvaluateTopography ==
    /\ Call("EvaluateTopography")
    /\ lastCall' = [op |-> "EvaluateTopography"]
    /\ LET r == TopographyResult(testCase, m_dataTopography, m_dataTopographyDeriv)
       IN  /\ m_dataTopography' = r.topo
           /\ m_dataTopographyDeriv' = r.deriv
           /\ IF r.raised THEN Raise("TestCase topography exceeds model top.") ELSE Return
    /\ UNCHANGED <<dInterpData, patchCurlDiv, patchConfig, patchLonLat, patchGeom, patchHeights, patchRayleigh,
                   patchState, patchRefState>>

\* variant of GeomPoint: the third component of the covariant row A lacks
\* the factor dDxZ
GeomPointCovUnscaled(dZs, dDaZs, dDbZs, dF, dDxF, dJ2D, dCon2DA, dCon2DB, dCov2DA, dCov2DB, dW) ==
    LET dDaZ == RMul(RSub(ROne, dF), dDaZs)
        dDbZ == RMul(RSub(ROne, dF), dDbZs)
        dDxZ == RMul(RSub(RInt(GetZtop), dZs), dDxF)
        dJ == RMul(dDxZ, dJ2D)
    IN  [m_dataJacobian |-> dJ,
         m_dataElementArea |-> RMul(dJ, dW),
         m_dataContraMetricA |-> <<dCon2DA[1], dCon2DA[2], DNeg(DDiv(dDaZ, dDxZ))>>,
         m_dataContraMetricB |-> <<dCon2DB[1], dCon2DB[2], DNeg(DDiv(dDbZ, dDxZ))>>,
         m_dataContraMetricXi |->
            <<DNeg(DDiv(dDaZ, dDxZ)), DNeg(DDiv(dDbZ, dDxZ)),
              DDiv(RAdd(ROne, RAdd(RMul(dDaZ, dDaZ), RMul(dDbZ, dDbZ))), RMul(dDxZ, dDxZ))>>,
         m_dataCovMetricA |->
            <<RAdd(dCov2DA[1], RMul(dDaZ, dDaZ)), RAdd(dCov2DA[2], RMul(dDaZ, dDbZ)),
              dDaZ>>,
         m_dataCovMetricB |->
            <<RAdd(dCov2DB[1], RMul(dDbZ, dDaZ)), RAdd(dCov2DB[2], RMul(dDbZ, dDbZ)),
              RMul(dDbZ, dDxZ)>>,
         m_dataCovMetricXi |-> <<RMul(dDaZ, dDxZ), RMul(dDbZ, dDxZ), RMul(dDxZ, dDxZ)>>,
         m_dataDerivR |-> <<dDaZ, dDbZ, dDxZ>>]

\* variant of GeomPoint: the Jacobian is taken from the slope dDaZ
GeomPointJacobianOfSlope(dZs, dDaZs, dDbZs, dF, dDxF, dJ2D, dCon2DA, dCon2DB, dCov2DA, dCov2DB, dW) ==
    LET dDaZ == RMul(RSub(ROne, dF), dDaZs)
        dDbZ == RMul(RSub(ROne, dF), dDbZs)
        dDxZ == RMul(RSub(RInt(GetZtop), dZs), dDxF)
        dJ == RMul(dDaZ, dJ2D)
    IN  [m_dataJacobian |-> dJ,
         m_dataElementArea |-> RMul(dJ, dW),
         m_dataContraMetricA |-> <<dCon2DA[1], dCon2DA[2], DNeg(DDiv(dDaZ, dDxZ))>>,
         m_dataContraMetricB |-> <<dCon2DB[1], dCon2DB[2], DNeg(DDiv(dDbZ, dDxZ))>>,
         m_dataContraMetricXi |->
            <<DNeg(DDiv(dDaZ, dDxZ)), DNeg(DDiv(dDbZ, dDxZ)),
              DDiv(RAdd(ROne, RAdd(RMul(dDaZ, dDaZ), RMul(dDbZ, dDbZ))), RMul(dDxZ, dDxZ))>>,
         m_dataCovMetricA |->
            <<RAdd(dCov2DA[1], RMul(dDaZ, dDaZ)), RAdd(dCov2DA[2], RMul(dDaZ, dDbZ)),
              RMul(dDaZ, dDxZ)>>,
         m_dataCovMetricB |->
            <<RAdd(dCov2DB[1], RMul(dDbZ, dDaZ)), RAdd(dCov2DB[2], RMul(dDbZ, dDbZ)),
              RMul(dDbZ, dDxZ)>>,
         m_dataCovMetricXi |-> <<RMul(dDaZ, dDxZ), RMul(dDbZ, dDxZ), RMul(dDxZ, dDxZ)>>,
         m_dataDerivR |-> <<dDaZ, dDbZ, dDxZ>>]

\* the metric terms of one point: topography dZs with derivatives dDaZs, dDbZs,
\* at stretched coordinate dF with derivative dDxF, element weight dW
GeomPoint(dZs, dDaZs, dDbZs, dF, dDxF, dJ2D, dCon2DA, dCon2DB, dCov2DA, dCov2DB, dW) ==
    LET dDaZ == RMul(RSub(ROne, dF), dDaZs)
        dDbZ == RMul(RSub(ROne, dF), dDbZs)
        dDxZ == RMul(RSub(RInt(GetZtop), dZs), dDxF)
        dJ == RMul(dDxZ, dJ2D)
    IN  [m_dataJacobian |-> dJ,
         m_dataElementArea |-> RMul(dJ, dW),
         m_dataContraMetricA |-> <<dCon2DA[1], dCon2DA[2], DNeg(DDiv(dDaZ, dDxZ))>>,
         m_dataContraMetricB |-> <<dCon2DB[1], dCon2DB[2], DNeg(DDiv(dDbZ, dDxZ))>>,
         m_dataContraMetricXi |->
            <<DNeg(DDiv(dDaZ, dDxZ)), DNeg(DDiv(dDbZ, dDxZ)),
              DDiv(RAdd(ROne, RAdd(RMul(dDaZ, dDaZ), RMul(dDbZ, dDbZ))), RMul(dDxZ, dDxZ))>>,
         m_dataCovMetricA |->
            <<RAdd(dCov2DA[1], RMul(dDaZ, dDaZ)), RAdd(dCov2DA[2], RMul(dDaZ, dDbZ)),
              RMul(dDaZ, dDxZ)>>,
         m_dataCovMetricB |->
            <<RAdd(dCov2DB[1], RMul(dDbZ, dDaZ)), RAdd(dCov2DB[2], RMul(dDbZ, dDbZ)),
              RMul(dDbZ, dDxZ)>>,
         m_dataCovMetricXi |-> <<RMul(dDaZ, dDxZ), RMul(dDbZ, dDxZ), RMul(dDxZ, dDxZ)>>,
         m_dataDerivR |-> <<dDaZ, dDbZ, dDxZ>>]

\* the 2D metric terms EvaluateGeometricTerms sets at the nodes of the elements
UnitGeom2D ==
    [m_dataJacobian2D |-> ROne,
     m_dataContraMetric2DA |-> <<ROne, RZero>>,
     m_dataContraMetric2DB |-> <<RZero, ROne>>,
     m_dataCovMetric2DA |-> <<ROne, RZero>>,
     m_dataCovMetric2DB |-> <<RZero, ROne>>]

\* the arrays on levels (fEdge false) or interfaces after the element loops
GeomArray(K, fEdge, dW, dOld) ==
    [k \in K |-> [iA \in NodesA |-> [iB \in NodesB |->
        IF InElementsA(iA) /\ InElementsB(iB)
        THEN LET dREta == IF fEdge THEN GetREtaInterface(k) ELSE GetREtaLevel(k)
                 g == UnitGeom2D
                 dWeight == RMul(RMul(RMul(dWL[iA - ElementBeginA(iA)], RInt(GetElementDeltaA)),
                                      RMul(dWL[iB - ElementBeginB(iB)], RInt(GetElementDeltaB))),
                                 dW[k])
             IN  GeomPoint(m_dataTopography[iA][iB],
                           m_dataTopographyDeriv[1][iA][iB], m_dataTopographyDeriv[2][iA][iB],
                           StretchF(stretch, dREta), StretchDxF(stretch, dREta),
                           g.m_dataJacobian2D, g.m_dataContraMetric2DA, g.m_dataContraMetric2DB,
                           g.m_dataCovMetric2DA, g.m_dataCovMetric2DB, dWeight)
        ELSE dOld[k][iA][iB]]]]

\* variant of CheckEdgeAreas: the edge check is made for every staggering
CheckEdgeAreasAlways(eStaggering) == TRUE

\* the checks of the normalized areas that open EvaluateGeometricTerms: the
\* edge check is made for every staggering but Interfaces
CheckEdgeAreas(eStaggering) == eStaggering # "Interfaces"
AreasRejected(eStaggering, dWNode, dWREdge) ==
    \/ AreaSumOff(dWNode, GetRElements)
    \/ CheckEdgeAreas(eStaggering) /\ AreaSumOff(dWREdge, GetRElements + 1)

\* GridPatchCartesianGLL::EvaluateGeometricTerms
EvaluateGeometricTerms ==
    /\ Call("EvaluateGeometricTerms")
    /\ lastCall' = [op |-> "EvaluateGeometricTerms"]
    /\ LET dWNode == GetREtaLevelsNormArea(areaNode)
           dWREdge == GetREtaInterfacesNormArea(areaEdge)
       IN  IF AreasRejected(staggering, dWNode, dWREdge)
           THEN /\ Raise("Error in normalized areas")
                /\ UNCHANGED patchGeom
           ELSE /\ geom2D' = [iA \in NodesA |-> [iB \in NodesB |->
                                 IF InElementsA(iA) /\ InElementsB(iB)
                                 THEN UnitGeom2D ELSE geom2D[iA][iB]]]
                /\ geomNode' = GeomArray(Levels, FALSE, dWNode, geomNode)
                /\ geomREdge' = GeomArray(Interfaces, TRUE, dWREdge, geomREdge)
                /\ Return
    /\ UNCHANGED <<dInterpData, patchCurlDiv, patchConfig, patchLonLat, patchTopo, patchHeights, patchRayleigh,
                   patchState, patchRefState>>

\* Gal-Chen and Somerville height of the coordinate dREta over topography dZs,
\* as EvaluateTestCase computes it
TestCaseHeight(dZs, dREta) == RAdd(dZs, RMul(dREta, RSub(RInt(GetZtop), dZs)))

\* the heights after the loop of EvaluateTestCase that stopped at node `stop`
HeightArray(K, fEdge, topo, stop, dOld) ==
    [k \in K |-> [i \in NodesA |-> [j \in NodesB |->
        IF ScanOrder(i, j) < stop
        THEN TestCaseHeight(topo[i][j],
                            IF fEdge THEN GetREtaInterface(k) ELSE GetREtaLevel(k))
        ELSE dOld[k][i][j]]]]

\* the Rayleigh strengths: both loops run over k < GetRElements
RayleighArray(K, dZ, dOld) ==
    [k \in K |-> [i \in NodesA |-> [j \in NodesB |->
        IF k < GetRElements
        THEN TestRayleighStrength(dZ[k][i][j], m_dataLon[i][j], m_dataLat[i][j])
        ELSE dOld[k][i][j]]]]

\* variant of SampledState: the sample is stored as the test case returns it
SampledStateUnconverted(K, dZ, fRef) ==
    [c \in Components |-> [k \in K |-> [i \in NodesA |-> [j \in NodesB |->
        IF fRef
        THEN TestReferenceState(dZ[k][i][j], m_dataLon[i][j], m_dataLat[i][j])[c]
        ELSE TestPointwiseState(dZ[k][i][j], m_dataLon[i][j], m_dataLat[i][j])[c]]]]]

\* the state (fRef false) or the reference state sampled at the heights dZ
SampledState(K, dZ, fRef) ==
    LET dPointwise == [k \in K |-> [i \in NodesA |-> [j \in NodesB |->
            ConvertComponents(
                IF fRef
                THEN TestReferenceState(dZ[k][i][j], m_dataLon[i][j], m_dataLat[i][j])
                ELSE TestPointwiseState(dZ[k][i][j], m_dataLon[i][j], m_dataLat[i][j]))]]]
    IN  [c \in Components |-> [k \in K |-> [i \in NodesA |-> [j \in NodesB |->
            dPointwise[k][i][j][c]]]]]

\* iDataIndex >= m_datavecStateNode.size(): the int is converted to the
\* unsigned type of the size, which makes a negative index larger than any
\* size
IndexNotBelowSize(iDataIndex, nSize) == iDataIndex < 0 \/ iDataIndex >= nSize

\* variant of TestCaseCheck: the dimensionality is not looked at
TestCaseCheckSizes(nSize, iDataIndex, dim, order) ==
    IF nSize = 0 THEN "InitializeData must be called before InitialConditions"
    ELSE IF IndexNotBelowSize(iDataIndex, nSize) THEN "Invalid iDataIndex (out of range)"
    ELSE "none"

\* variant of TestCaseCheck: an index equal to the number of slots passes
TestCaseCheckPastEnd(nSize, iDataIndex, dim, order) ==
    IF nSize = 0 THEN "InitializeData must be called before InitialConditions"
    ELSE IF IndexNotBelowSize(iDataIndex, nSize + 1) THEN "Invalid iDataIndex (out of range)"
    ELSE IF dim = 2 /\ order # 1 THEN "VerticalOrder / Dimensionality mismatch"
    ELSE "none"

\* the checks EvaluateTestCase makes before it touches the data, in their
\* order: the text of the Exception raised, or "none"
TestCaseCheck(nSize, iDataIndex, dim, order) ==
    IF nSize = 0 THEN "InitializeData must be called before InitialConditions"
    ELSE IF IndexNotBelowSize(iDataIndex, nSize) THEN "Invalid iDataIndex (out of range)"
    ELSE IF dim = 2 /\ order # 1 THEN "VerticalOrder / Dimensionality mismatch"
    ELSE "none"

\* GridPatchCartesianGLL::EvaluateTestCase(test, time, iDataIndex)
EvaluateTestCase(iDataIndex) ==
       \* the call is also made of a patch whose data is not allocated
    /\ ppc \in {"constructed", "ready"}
    /\ phase <= Rank("EvaluateTestCase")
    /\ phase' = Rank("EvaluateTestCase")
    /\ lastCall' = [op |-> "EvaluateTestCase", iDataIndex |-> iDataIndex]
    /\ IF TestCaseCheck(Cardinality(DOMAIN m_datavecStateNode), iDataIndex,
                        nDim, m_nVerticalOrder) # "none"
       THEN /\ Raise(TestCaseCheck(Cardinality(DOMAIN m_datavecStateNode), iDataIndex,
                                   nDim, m_nVerticalOrder))
            /\ UNCHANGED <<patchTopo, patchHeights, patchRayleigh, patchState, patchRefState>>
       ELSE LET r == TopographyResult(testCase, m_dataTopography, m_dataTopographyDeriv)
                scan == SampleTopography(testCase, m_dataLon, m_dataLat, r.topo)
                dZL == HeightArray(Levels, FALSE, scan.topo, scan.stop, m_dataZLevels)
                dZI == HeightArray(Interfaces, TRUE, scan.topo, scan.stop, m_dataZInterfaces)
            IN  IF r.raised
                THEN /\ Raise("TestCase topography exceeds model top.")
                     /\ m_dataTopography' = r.topo
                     /\ m_dataTopographyDeriv' = r.deriv
                     /\ UNCHANGED <<patchHeights, patchRayleigh, patchState, patchRefState>>
                ELSE IF scan.raised
                THEN /\ Raise("TestCase topography exceeds model top.")
                     /\ m_dataTopography' = scan.topo
                     /\ m_dataTopographyDeriv' = r.deriv
                     /\ m_dataZLevels' = dZL
                     /\ m_dataZInterfaces' = dZI
                     /\ UNCHANGED <<patchRayleigh, patchState, patchRefState>>
                ELSE /\ Return
                     /\ m_dataTopography' = scan.topo
                     /\ m_dataTopographyDeriv' = r.deriv
                     /\ m_dataZLevels' = dZL
                     /\ m_dataZInterfaces' = dZI
                     /\ IF fRayleigh
                        THEN /\ m_dataRayleighStrengthNode' =
                                    RayleighArray(Levels, dZL, m_dataRayleighStrengthNode)
                             /\ m_dataRayleighStrengthREdge' =
                                    RayleighArray(Interfaces, dZI, m_dataRayleighStrengthREdge)
                        ELSE UNCHANGED patchRayleigh
                     /\ m_datavecStateNode' =
                            [m_datavecStateNode EXCEPT ![iDataIndex] = SampledState(Levels, dZL, FALSE)]
                     /\ m_datavecStateREdge' =
                            [m_datavecStateREdge EXCEPT ![iDataIndex] = SampledState(Interfaces, dZI, FALSE)]
                     /\ IF fRefState
                        THEN /\ m_dataRefStateNode' = SampledState(Levels, dZL, TRUE)
                             /\ m_dataRefStateREdge' = SampledState(Interfaces, dZI, TRUE)
                        ELSE UNCHANGED patchRefState
    /\ UNCHANGED <<dInterpData, patchCurlDiv, patchConfig, patchLonLat, patchGeom>>

\* the value of w that makes the flow through the bottom vanish:
\* - (g^{xi a} u + g^{xi b} v) / g^{xi xi} / d_xi Z at level k of (i, j)
NoFlowUr(k, i, j, dUa, dUb) ==
    LET dXi == geomNode[k][i][j].m_dataContraMetricXi
    IN  DDiv(DDiv(DNeg(DAdd(DMul(dXi[1], dUa), DMul(dXi[2], dUb))), dXi[3]),
             geomNode[k][i][j].m_dataDerivR[3])

\* GridPatch::CalculateNoFlowUrNode(k, i, j, dUa, dUb)
CalculateNoFlowUrNode(k, i, j, dUa, dUb) == NoFlowUr(k, i, j, dUa, dUb)

\* the value ApplyBoundaryConditions stores at (i, j)
BottomW(fCov, iDataIndex, i, j) ==
    LET dUa == m_datavecStateNode[iDataIndex][UIx][0][i][j]
        dUb == m_datavecStateNode[iDataIndex][VIx][0][i][j]
    IN  IF fCov THEN NoFlowUr(0, i, j, dUa, dUb)
        ELSE CalculateNoFlowUrNode(0, i, j, dUa, dUb)

\* component WIx of a field at k = 0 replaced by the no-flow value
WithBottomW(field, fCov, iDataIndex) ==
    [field EXCEPT ![iDataIndex][WIx][0] =
        [i \in NodesA |-> [j \in NodesB |-> BottomW(fCov, iDataIndex, i, j)]]]

\* the array ApplyBoundaryConditions writes: "node", "edge" or "none" (the
\* staggering is not implemented)
BoundaryTarget(eStaggering, fCov) ==
    IF eStaggering = "Levels" THEN "none"
    ELSE IF eStaggering = "Interfaces" THEN "node"
    ELSE IF fCov THEN "edge" ELSE "node"

\* GridPatchCartesianGLL::ApplyBoundaryConditions(iDataIndex, eDataType)
ApplyBoundaryConditions(iDataIndex) ==
    /\ Call("ApplyBoundaryConditions")
    /\ lastCall' = [op |-> "ApplyBoundaryConditions", iDataIndex |-> iDataIndex]
    /\ LET target == BoundaryTarget(staggering, fCovariant)
       IN  IF target = "none"
           THEN /\ Raise("Not implemented")
                /\ UNCHANGED patchState
           ELSE /\ Return
                /\ IF target = "node"
                   THEN /\ m_datavecStateNode' =
                               WithBottomW(m_datavecStateNode, fCovariant, iDataIndex)
                        /\ UNCHANGED m_datavecStateREdge
                   ELSE /\ m_datavecStateREdge' =
                               WithBottomW(m_datavecStateREdge, fCovariant, iDataIndex)
                        /\ UNCHANGED m_datavecStateNode
    /\ UNCHANGED <<dInterpData, patchCurlDiv, patchConfig, patchLonLat, patchTopo, patchGeom, patchHeights,
                   patchRayleigh, patchRefState>>

\* m_box.GetAEdge(i), m_box.GetBEdge(j): the edge coordinates of the box.  The
\* spacing repeats the Gauss-Lobatto points of an element, so the edge at the
\* end of the interior is the end of the last element.
GetAInteriorEnd == GetAInteriorBegin + GetElementCountA * m_nHorizontalOrder
GetBInteriorEnd == GetBInteriorBegin + GetElementCountB * m_nHorizontalOrder
GetAInteriorWidth == GetAInteriorEnd - GetAInteriorBegin
GetBInteriorWidth == GetBInteriorEnd - GetBInteriorBegin
RepeatedGLL(x0, dDelta, rel) ==
    x0 + dDelta * (rel \div m_nHorizontalOrder)
       + GaussLobattoPoints(m_nHorizontalOrder, 0, dDelta)[rel % m_nHorizontalOrder]
GetAEdge(i) == RepeatedGLL(m_dGDim[1], GetElementDeltaA, i - GetAInteriorBegin)
GetBEdge(j) == RepeatedGLL(m_dGDim[3], GetElementDeltaB, j - GetBInteriorBegin)
GetAEdges == [i \in 0..GetATotalWidth |-> GetAEdge(i)]
GetBEdges == [j \in 0..GetBTotalWidth |-> GetBEdge(j)]

\* GetPatchIndex() of this patch, and the index of another patch
GetPatchIndex == 0
OtherPatchIndex == 1

\* the tolerance of the range check of InterpolateData.  Coordinates are
\* integers here: the tolerance is one unit, the element is four units wide.
Eps == 1

\* conversion of a quotient of doubles to int: truncation towards zero
TruncDiv(a, b) == IF a >= 0 THEN a \div b ELSE -((-a) \div b)

\* variant of PointOutOfRange: the tolerance is not allowed for
PointOutOfRangeExact(dAlpha, dBeta) ==
    \/ dAlpha < GetAEdge(GetAInteriorBegin)
    \/ dAlpha > GetAEdge(GetAInteriorEnd)
    \/ dBeta < GetBEdge(GetBInteriorBegin)
    \/ dBeta > GetBEdge(GetBInteriorEnd)

\* the range check InterpolateData makes of a point of this patch
PointOutOfRange(dAlpha, dBeta) ==
    \/ dAlpha < GetAEdge(GetAInteriorBegin) - Eps
    \/ dAlpha > GetAEdge(GetAInteriorEnd) + Eps
    \/ dBeta < GetBEdge(GetBInteriorBegin) - Eps
    \/ dBeta > GetBEdge(GetBInteriorEnd) + Eps

\* the first node of the element InterpolateData takes for a coordinate: the
\* element index is truncated and bounded, then turned into a node index
ElementNode(dX, dEdge0, dDelta, nInteriorWidth) ==
    LET iRaw == TruncDiv(dX - dEdge0, dDelta)
        nElements == nInteriorWidth \div m_nHorizontalOrder
        iLow == IF iRaw < 0 THEN 0 ELSE iRaw
        iBounded == IF iLow >= nElements THEN nElements - 1 ELSE iLow
    IN  HaloElements + iBounded * m_nHorizontalOrder

\* the sum over the nodes (m, n) of the element at (iA, iB) of
\* dACoeffs[m] * dBCoeffs[n] * pData[iA + m][iB + n]
ElementSum(dACoeffs, dBCoeffs, pData, iA, iB) ==
    LET term == [q \in 0..(m_nHorizontalOrder * m_nHorizontalOrder - 1) |->
                    LET m == q \div m_nHorizontalOrder
                        n == q % m_nHorizontalOrder
                    IN  DMul(DMul(dACoeffs[m], dBCoeffs[n]), pData[iA + m][iB + n])]
        RECURSIVE Sum(_)
        Sum(q) == IF q < 0 THEN RZero ELSE DAdd(Sum(q - 1), term[q])
    IN  Sum(m_nHorizontalOrder * m_nHorizontalOrder - 1)

\* variant of SubtractsReference: the reference state is always subtracted
SubtractsReferenceAlways(eDataType, fIncludeReferenceState) == TRUE

\* whether InterpolateData takes the reference state off the value
SubtractsReference(eDataType, fIncludeReferenceState) ==
    eDataType = "State" /\ ~fIncludeReferenceState

\* the horizontal array pData interpolated to (dAlpha, dBeta): the element is
\* found, the Lagrange coefficients are taken over its edges, the sum is made
InterpolateArray(pData, dAlpha, dBeta) ==
    LET iA == ElementNode(dAlpha, GetAEdge(GetAInteriorBegin), GetElementDeltaA,
                          GetAInteriorWidth)
        iB == ElementNode(dBeta, GetBEdge(GetBInteriorBegin), GetElementDeltaB,
                          GetBInteriorWidth)
        dAInterpCoeffs ==
            LagrangianPolynomialCoeffs(m_nHorizontalOrder, GetAEdges, iA, dAlpha)
        dBInterpCoeffs ==
            LagrangianPolynomialCoeffs(m_nHorizontalOrder, GetBEdges, iB, dBeta)
    IN  ElementSum(dAInterpCoeffs, dBInterpCoeffs, pData, iA, iB)

\* the value InterpolateData stores in dInterpData[c][k][i] for the point
\* (dAlpha, dBeta)
InterpolatedValue(eDataType, eDataLocation, fIncludeReferenceState, c, k, dAlpha, dBeta) ==
    LET pData == IF eDataType = "Topography" THEN m_dataTopography
                 ELSE IF eDataLocation = "Node" THEN m_datavecStateNode[0][c][k]
                 ELSE m_datavecStateREdge[0][c][k]
        pRef == IF eDataLocation = "Node" THEN m_dataRefStateNode[c][k]
                ELSE m_dataRefStateREdge[c][k]
        dValue == InterpolateArray(pData, dAlpha, dBeta)
    IN  IF SubtractsReference(eDataType, fIncludeReferenceState)
        THEN DSub(dValue, InterpolateArray(pRef, dAlpha, dBeta))
        ELSE dValue

\* the kinds of data InterpolateData is asked for, and where they live
DataTypes == {"State", "Topography"}
DataLocations == {"Node", "REdge"}
\* nComponents and nRElements of a request
InterpComponents(eDataType) == IF eDataType = "State" THEN Cardinality(Components) ELSE 1
InterpRElements(eDataType, eDataLocation) ==
    IF eDataType = "Topography" THEN 1
    ELSE IF eDataLocation = "Node" THEN GetRElements
    ELSE GetRElements + 1

\* what the caller's array holds before the call
dCallerFill == RInt(-999)
\* the most points of one request
MaxPoints == 2
\* the points the callers ask of this patch: inside the element, on its
\* corner, within the tolerance outside it, and farther out in alpha or in
\* beta; and the points they ask of another patch
RequestPoints == {<<1, 3>>, <<4, 0>>, <<-1, 5>>, <<-2, 2>>, <<1, 6>>}
OtherPatchPoints == {<<3, 1>>, <<6, 6>>}
\* a request: the points, each with the patch it was assigned to, and the
\* number of rows of dBeta
RequestEntries ==
    (RequestPoints \X {GetPatchIndex}) \cup (OtherPatchPoints \X {OtherPatchIndex})
PointLists == UNION {[1..n -> RequestEntries] : n \in 1..MaxPoints}

\* GridPatchCartesianGLL::InterpolateData(dAlpha, dBeta, iPatch, eDataType,
\* eDataLocation, fInterpAllVariables, dInterpData, fIncludeReferenceState,
\* fConvertToPrimitive); iPatch has an entry for every entry of dAlpha
InterpolateData(dAlpha, dBeta, iPatch, eDataType, eDataLocation, fIncludeReferenceState) ==
    /\ Call("InterpolateData")
    /\ lastCall' = [op |-> "InterpolateData", dAlpha |-> dAlpha, dBeta |-> dBeta,
                    iPatch |-> iPatch, eDataType |-> eDataType,
                    eDataLocation |-> eDataLocation,
                    fIncludeReferenceState |-> fIncludeReferenceState]
    /\ LET nPoints == Len(dAlpha)
           dFill == [c \in Components |-> [k \in Interfaces |-> [i \in 1..nPoints |->
                        dCallerFill]]]
           Own(i) == iPatch[i] = GetPatchIndex
           offenders == {i \in 1..nPoints : Own(i) /\ PointOutOfRange(dAlpha[i], dBeta[i])}
           \* the loop stops at the first point out of range
           Reached(i) == \A o \in offenders : i < o
       IN  IF Len(dAlpha) # Len(dBeta)
           THEN /\ Raise("Point vectors must have equivalent length.")
                /\ dInterpData' = dFill
           ELSE /\ IF offenders # {} THEN Raise("Point out of range") ELSE Return
                /\ dInterpData' =
                      [c \in Components |-> [k \in Interfaces |-> [i \in 1..nPoints |->
                          IF /\ Own(i) /\ Reached(i)
                             /\ c < InterpComponents(eDataType)
                             /\ k < InterpRElements(eDataType, eDataLocation)
                          THEN InterpolatedValue(eDataType, eDataLocation,
                                                 fIncludeReferenceState, c, k,
                                                 dAlpha[i], dBeta[i])
                          ELSE dCallerFill]]]
    /\ UNCHANGED <<patchConfig, patchLonLat, patchTopo, patchGeom, patchHeights,
                   patchRayleigh, patchState, patchRefState, patchCurlDiv>>

\* variant of CurlAndDivNode: the two terms of the vorticity change places
CurlAndDivNodeReversed(dataUa, dataUb, k, iA, iB) ==
    LET eA == ElementBeginA(iA)
        eB == ElementBeginB(iB)
        Elem == 0..(m_nHorizontalOrder - 1)
        dConUa(i, j) == DAdd(DMul(geom2D[eA + i][eB + j].m_dataContraMetric2DA[1],
                                  dataUa[k][eA + i][eB + j]),
                             DMul(geom2D[eA + i][eB + j].m_dataContraMetric2DA[2],
                                  dataUb[k][eA + i][eB + j]))
        dConUb(i, j) == DAdd(DMul(geom2D[eA + i][eB + j].m_dataContraMetric2DB[1],
                                  dataUa[k][eA + i][eB + j]),
                             DMul(geom2D[eA + i][eB + j].m_dataContraMetric2DB[2],
                                  dataUb[k][eA + i][eB + j]))
        dDaJUa == RDiv(BasisSum([sb \in Elem |->
                           RMul(geom2D[eA + sb][iB].m_dataJacobian2D, dConUa(sb, iB - eB))],
                           iA - eA, 0), RInt(GetElementDeltaA))
        dDbJUb == RDiv(BasisSum([sb \in Elem |->
                           RMul(geom2D[iA][eB + sb].m_dataJacobian2D, dConUb(iA - eA, sb))],
                           iB - eB, 0), RInt(GetElementDeltaB))
        dCovDaUb == RDiv(BasisSum([sb \in Elem |-> dataUb[k][eA + sb][iB]], iA - eA, 0),
                         RInt(GetElementDeltaA))
        dCovDbUa == RDiv(BasisSum([sb \in Elem |-> dataUa[k][iA][eB + sb]], iB - eB, 0),
                         RInt(GetElementDeltaB))
    IN  [vorticity |-> DDiv(RSub(dCovDbUa, dCovDaUb), geom2D[iA][iB].m_dataJacobian2D),
         divergence |-> DDiv(RAdd(dDaJUa, dDbJUb), geom2D[iA][iB].m_dataJacobian2D)]

\* what ComputeCurlAndDiv stores at node (iA, iB) of level k, a node of the
\* element that begins at (eA, eB)
CurlAndDivNode(dataUa, dataUb, k, iA, iB) ==
    LET eA == ElementBeginA(iA)
        eB == ElementBeginB(iB)
        Elem == 0..(m_nHorizontalOrder - 1)
        dConUa(i, j) == DAdd(DMul(geom2D[eA + i][eB + j].m_dataContraMetric2DA[1],
                                  dataUa[k][eA + i][eB + j]),
                             DMul(geom2D[eA + i][eB + j].m_dataContraMetric2DA[2],
                                  dataUb[k][eA + i][eB + j]))
        dConUb(i, j) == DAdd(DMul(geom2D[eA + i][eB + j].m_dataContraMetric2DB[1],
                                  dataUa[k][eA + i][eB + j]),
                             DMul(geom2D[eA + i][eB + j].m_dataContraMetric2DB[2],
                                  dataUb[k][eA + i][eB + j]))
        dDaJUa == RDiv(BasisSum([sb \in Elem |->
                           RMul(geom2D[eA + sb][iB].m_dataJacobian2D, dConUa(sb, iB - eB))],
                           iA - eA, 0), RInt(GetElementDeltaA))
        dDbJUb == RDiv(BasisSum([sb \in Elem |->
                           RMul(geom2D[iA][eB + sb].m_dataJacobian2D, dConUb(iA - eA, sb))],
                           iB - eB, 0), RInt(GetElementDeltaB))
        dCovDaUb == RDiv(BasisSum([sb \in Elem |-> dataUb[k][eA + sb][iB]], iA - eA, 0),
                         RInt(GetElementDeltaA))
        dCovDbUa == RDiv(BasisSum([sb \in Elem |-> dataUa[k][iA][eB + sb]], iB - eB, 0),
                         RInt(GetElementDeltaB))
    IN  [vorticity |-> DDiv(RSub(dCovDaUb, dCovDbUa), geom2D[iA][iB].m_dataJacobian2D),
         divergence |-> DDiv(RAdd(dDaJUa, dDbJUb), geom2D[iA][iB].m_dataJacobian2D)]

\* GridPatchCartesianGLL::ComputeCurlAndDiv(dataUa, dataUb), the fields being
\* the components iUa and iUb of the state on levels in slot iDataIndex
\* (ComputeVorticityDivergence passes the components 0 and 1)
ComputeCurlAndDiv(iDataIndex, iUa, iUb) ==
    /\ Call("ComputeCurlAndDiv")
    /\ lastCall' = [op |-> "ComputeCurlAndDiv", iDataIndex |-> iDataIndex,
                    iUa |-> iUa, iUb |-> iUb]
    /\ LET dataUa == m_datavecStateNode[iDataIndex][iUa]
           dataUb == m_datavecStateNode[iDataIndex][iUb]
       IN  /\ m_dataVorticity' = [k \in Levels |-> [iA \in NodesA |-> [iB \in NodesB |->
                  IF InElementsA(iA) /\ InElementsB(iB)
                  THEN CurlAndDivNode(dataUa, dataUb, k, iA, iB).vorticity
                  ELSE m_dataVorticity[k][iA][iB]]]]
           /\ m_dataDivergence' = [k \in Levels |-> [iA \in NodesA |-> [iB \in NodesB |->
                  IF InElementsA(iA) /\ InElementsB(iB)
                  THEN CurlAndDivNode(dataUa, dataUb, k, iA, iB).divergence
                  ELSE m_dataDivergence[k][iA][iB]]]]
    /\ Return
    /\ UNCHANGED <<patchConfig, patchLonLat, patchTopo, patchGeom, patchHeights,
                   patchRayleigh, patchState, patchRefState, dInterpData>>

(***************************************************************************)
(* The test case: ThermalBubbleCartesianTest.                              *)
(* Its callbacks are functions of a point.  Lengths are integers (metres); *)
(* the square root is taken of perfect squares, the cosine at the          *)
(* multiples of pi / 2, and the density is kept as the power it is         *)
(* computed from.                                                          *)
(***************************************************************************)
m_dThetaBar == 300
m_dThetaC == RHalf
m_drC == 250
m_dxC == 500
m_dzC == 350
\* m_dGDim of the test case and its GetZtop()
ThermalBubbleGDim == <<0, 1000, -1000, 1000, 0, 1000>>
ThermalBubbleGetZtop == ThermalBubbleGDim[6]

\* PhysicalConstants: GetG(), GetCp(), GetCv(), GetR(), GetP0()
PhysG == Norm(980616, 100000)
PhysCp == Norm(10045, 10)
PhysCv == Norm(7175, 10)
PhysR == RInt(287)
PhysP0 == RInt(100000)

\* sqrt of a perfect square
ISqrt(n) == CHOOSE r \in 0..n : r * r = n
\* cos(m_dpiC * t) at t = 0, 1/2, 1, m_dpiC taken as pi
CosPi(t) == IF t = RZero THEN ROne ELSE IF t = RHalf THEN RZero ELSE RInt(-1)

VARIABLES
    bubblePoint,        \* the point the callbacks are evaluated at
    bubbleTopography,   \* <<value>> once EvaluateTopography has returned
    bubbleReference,    \* <<dState>> once EvaluateReferenceState has returned
    bubblePointwise     \* <<dState>> once EvaluatePointwiseState has returned

testVars == <<bubblePoint, bubbleTopography, bubbleReference, bubblePointwise>>

\* (dXp, dZp) of the points: the centre of the bubble, half way out, on its
\* rim, just outside it and far from it
BubblePointsXZ ==
    {<<500, 350>>, <<575, 450>>, <<650, 550>>, <<350, 150>>, <<750, 350>>,
     <<500, 601>>, <<800, 750>>, <<0, 0>>, <<1000, 1000>>, <<500, 0>>}
BubblePointsY == {-1000, 0, 1000}

\* the square of the distance of (dXp, dZp) from the centre of the bubble
RadiusSquared(dXp, dZp) ==
    (dXp - m_dxC) * (dXp - m_dxC) + (dZp - m_dzC) * (dZp - m_dzC)

\* ThermalBubbleCartesianTest::EvaluateTopography(dXp, dYp)
BubbleTopography(dXp, dYp) == RZero

\* variant of EvaluateTPrime: outside the bubble dThetaHat keeps the value it
\* was declared with
EvaluateTPrimeInsideOnly(dXp, dZp) ==
    LET r2 == RadiusSquared(dXp, dZp)
    IN  IF r2 <= m_drC * m_drC
        THEN RMul(RMul(RHalf, m_dThetaC),
                  RAdd(ROne, CosPi(Norm(ISqrt(r2), m_drC))))
        ELSE ROne

\* ThermalBubbleCartesianTest::EvaluateTPrime(phys, dXp, dZp); dRp <= m_drC is
\* compared on the squares
EvaluateTPrime(dXp, dZp) ==
    LET r2 == RadiusSquared(dXp, dZp)
    IN  IF r2 <= m_drC * m_drC
        THEN RMul(RMul(RHalf, m_dThetaC),
                  RAdd(ROne, CosPi(Norm(ISqrt(r2), m_drC))))
        ELSE IF r2 > m_drC * m_drC THEN RZero
        ELSE ROne

\* dRho of both callbacks: dP0 / (dRd * m_dThetaBar) * pow(dExnerP, dCv / dRd)
\* with dExnerP = - dG / (dCp * m_dThetaBar) * dZp + 1.0
ExnerDensity(dZp) ==
    [dFactor |-> RDiv(PhysP0, RMul(PhysR, RInt(m_dThetaBar))),
     dExnerP |-> RAdd(RMul(RNeg(RDiv(PhysG, RMul(PhysCp, RInt(m_dThetaBar)))),
                           RInt(dZp)), ROne),
     dExponent |-> RDiv(PhysCv, PhysR)]

\* ThermalBubbleCartesianTest::EvaluateReferenceState(phys, dZp, dXp, dYp, dState)
EvaluateReferenceState(dZp, dXp, dYp) ==
    [c \in Components |->
        IF c \in {UIx, VIx, WIx} THEN RZero
        ELSE IF c = TIx THEN RInt(m_dThetaBar)
        ELSE ExnerDensity(dZp)]

\* ThermalBubbleCartesianTest::EvaluatePointwiseState(phys, time, dZp, dXp,
\* dYp, dState, dTracer)
EvaluatePointwiseState(dZp, dXp, dYp) ==
    [c \in Components |->
        IF c \in {UIx, VIx, WIx} THEN RZero
        ELSE IF c = TIx THEN RAdd(RInt(m_dThetaBar), EvaluateTPrime(dXp, dZp))
        ELSE ExnerDensity(dZp)]

NoPoint == [dXp |-> 0, dYp |-> 0, dZp |-> 0]
TestIdle ==
    /\ bubblePoint = NoPoint
    /\ bubbleTopography = <<>>
    /\ bubbleReference = <<>>
    /\ bubblePointwise = <<>>

TestInit ==
    /\ bubblePoint \in {[dXp |-> p[1], dYp |-> y, dZp |-> p[2]] :
                           p \in BubblePointsXZ, y \in BubblePointsY}
    /\ bubbleTopography = <<>>
    /\ bubbleReference = <<>>
    /\ bubblePointwise = <<>>

\* the grid asks the test case for the topography under the point
CallEvaluateTopography ==
    /\ bubbleTopography = <<>>
    /\ bubbleTopography' = <<BubbleTopography(bubblePoint.dXp, bubblePoint.dYp)>>
    /\ UNCHANGED <<bubblePoint, bubbleReference, bubblePointwise>>

\* the grid asks for the reference state at the point
CallEvaluateReferenceState ==
    /\ bubbleReference = <<>>
    /\ bubbleReference' =
           <<EvaluateReferenceState(bubblePoint.dZp, bubblePoint.dXp, bubblePoint.dYp)>>
    /\ UNCHANGED <<bubblePoint, bubbleTopography, bubblePointwise>>

\* the grid asks for the state at the point
CallEvaluatePointwiseState ==
    /\ bubblePointwise = <<>>
    /\ bubblePointwise' =
           <<EvaluatePointwiseState(bubblePoint.dZp, bubblePoint.dXp, bubblePoint.dYp)>>
    /\ UNCHANGED <<bubblePoint, bubbleTopography, bubbleReference>>

(***************************************************************************)
(* Properties of the driver.                                               *)
(***************************************************************************)
\* C1: main exits with code 0 only on successful completion: when an
\* Exception was raised in the try block (command line, setup, SetTestCase,
\* Go, ComputeErrorNorms), the exit code of the process is not 0.
C1_ExitCodeReportsException ==
    (mpc = "exited" /\ exception # "none") => exitCode # 0

\* the steps of the try block in the order main() runs them
MainStepOrder == <<"parse", "setup", "settestcase", "go_return", "norms">>
\* the number of steps of the try block that precede the step `at`
StepsBefore(at) ==
    CASE at = "parse" -> 0
      [] at = "setup" -> 1
      [] at = "settestcase" -> 2
      [] at = "go" -> 3
      [] at = "norms" -> 4
      [] OTHER -> 5
\* main() has returned with both calls made exactly once
DeinitializedOnce == mpc = "exited" /\ nInitialize = 1 /\ nDeinitialize = 1
\* what holds once TempestDeinitialize has been called after an Exception:
\* its text was the last thing printed, and the steps executed are exactly
\* those before the failing one (within Go: the time steps before it)
AfterException ==
    /\ exception = fault.text
    /\ Len(stdout) > 0
    /\ stdout[Len(stdout)] = exception
    /\ executed = SubSeq(MainStepOrder, 1, StepsBefore(fault.at))
    /\ (fault.at = "go" => stepsDone = fault.step - 1)
    /\ (StepsBefore(fault.at) < 3 => stepsDone = 0)
\* C30: on every path of main() TempestDeinitialize is called exactly once,
\* after TempestInitialize: every run reaches the end of main with one call
\* of each, the call of TempestDeinitialize never precedes that of
\* TempestInitialize, and an Exception raised by a step of the try block
\* (command line ... ComputeErrorNorms) is caught, so that when
\* TempestDeinitialize is called its text has been printed and no step after
\* the failing one has been executed; without an Exception all steps ran.
C30_DeinitializeOnceOnEveryPath ==
    /\ <>DeinitializedOnce
    /\ [](nDeinitialize <= nInitialize /\ nInitialize <= 1)
    /\ [](fault # NoFault => <>(exception = fault.text))
    /\ [](nDeinitialize = 1 /\ fault # NoFault => AfterException)
    /\ [](nDeinitialize = 1 /\ fault = NoFault =>
            exception = "none" /\ executed = MainStepOrder /\ stepsDone = nSteps)
C30_Witness ==
    /\ DeinitializedOnce
    /\ fault.at = "go"
    /\ fault.step = 2
    /\ AfterException
    /\ executed = <<"parse", "setup", "settestcase">>

(***************************************************************************)
(* Properties of the column operators.                                     *)
(***************************************************************************)
\* the sum of the coefficients of row r
RowSum(r) == RSum(m_dCoeff[r], 0, GetRows(m_dCoeff[r]))
\* the rows the loop over l has stored
Stored(r) == r \in DOMAIN rowInfo /\ r < l
\* the operator of InitializeInterfaceMethod after its composition with the
\* interpolation from levels
Composed == opKind = "DiffInterface" /\ arg.eInterpSource = "Levels" /\ cpc = "done"
RowWidth(r) == m_iEnd[r] - m_iBegin[r]
\* the rows a loop over l has filled (the others are as allocated)
Filled(r) == r \in DOMAIN rowInfo /\ rowInfo[r].a >= 0

\* C3, as stated: a row of the flux-correction operator in the first or the
\* last finite element gets the one-sided boundary term in every case but
\* fZeroBoundaries = true together with nFiniteElements = 1.
C3_BoundaryTermUnlessBoth ==
    opKind = "DiffFlux" =>
        \A r \in DOMAIN rowInfo :
            (Stored(r) /\ rowInfo[r].a \in {0, NumFE(arg) - 1}) =>
                (rowInfo[r].bdry <=> ~(arg.fZeroBoundaries /\ NumFE(arg) = 1))

\* C3, amended: a row of the flux-correction operator in the first or the
\* last finite element gets the one-sided boundary term exactly when
\* fZeroBoundaries is false and nFiniteElements is not 1; with
\* fZeroBoundaries set, or with a single element, no boundary term is added.
C3_BoundaryTermGuard ==
    opKind = "DiffFlux" =>
        \A r \in DOMAIN rowInfo :
            (Stored(r) /\ rowInfo[r].a \in {0, NumFE(arg) - 1}) =>
                (rowInfo[r].bdry <=> (~arg.fZeroBoundaries /\ NumFE(arg) # 1))

\* a finished flux-correction operator of several elements with
\* fZeroBoundaries set: its rows in the first element have no boundary term
C3_Witness ==
    /\ opKind = "DiffFlux" /\ cpc = "done"
    /\ arg.fZeroBoundaries /\ NumFE(arg) > 1
    /\ \E r \in DOMAIN rowInfo : rowInfo[r].a = 0 /\ ~rowInfo[r].bdry

\* C4, as stated: every row of the operators of Initialize (interpolation),
\* InitializeInterfaceMethod, InitializeFluxCorrectionMethod and
\* InitializeGLLNodes has a support of width at most 2 (p + 1).
C4_WidthAtMostTwoPPlusTwo ==
    opKind \in {"Interp", "DiffInterface", "DiffFlux", "DiffGLL"} =>
        \A r \in DOMAIN m_iBegin : RowWidth(r) <= 2 * (arg.nVerticalOrder + 1)

\* C4, amended: the support of a row is at most 2 (p + 1) wide for the
\* interpolation operator, the interface-method operator as its loop builds it
\* (before the composition with the interpolation from levels) and the
\* GLL-node derivative; for the flux-correction operator it is at most 3 p
\* wide, the nodes of three elements.
C4_SupportWidth ==
    \A r \in DOMAIN m_iBegin :
        /\ (opKind \in {"Interp", "DiffGLL"} \/ (opKind = "DiffInterface" /\ ~Composed))
              => RowWidth(r) <= 2 * (arg.nVerticalOrder + 1)
        /\ opKind = "DiffFlux" => RowWidth(r) <= 3 * arg.nVerticalOrder

\* a row of a flux-correction operator of order 3 in an inner element: its
\* support is 9 wide
C4_Witness ==
    /\ opKind = "DiffFlux" /\ arg.nVerticalOrder = 3
    /\ \E r \in DOMAIN rowInfo :
           /\ Stored(r) /\ rowInfo[r].a > 0 /\ rowInfo[r].a < NumFE(arg) - 1
           /\ RowWidth(r) = 3 * arg.nVerticalOrder
           /\ RowWidth(r) > 2 * (arg.nVerticalOrder + 1)

\* C5: every derivative operator yields zero on a constant column: the
\* coefficients of every row of a finished operator of InitializeInterfaceMethod,
\* InitializeFluxCorrectionMethod and the two InitializeGLLNodes sum to zero.
C5_DerivativeOfConstant ==
    (cpc = "done" /\ opKind \in {"DiffInterface", "DiffFlux", "DiffGLL", "DiffDiffGLL"}) =>
        \A r \in DOMAIN m_dCoeff : RowSum(r) = RZero

\* C6, as stated: the coefficients of every row of the interpolation operator
\* sum to 1, for both sources and both values of fZeroBoundaries.
C6_EveryRowSumsToOne ==
    (cpc = "done" /\ opKind = "Interp") =>
        \A r \in DOMAIN m_dCoeff : RowSum(r) = ROne

\* C6, amended: the coefficients of every row the loop of
\* LinearColumnInterpFEM::Initialize fills sum to 1, for both sources, inside
\* an element and on an element interface; the rows fZeroBoundaries leaves out
\* (the first at REta = 0, the last at REta = 1) sum to 0.
C6_FilledRowsSumToOne ==
    opKind = "Interp" =>
        \A r \in DOMAIN m_dCoeff :
            IF Filled(r) THEN RowSum(r) = ROne
            ELSE RowSum(r) = RZero

\* a finished interpolation from levels with fZeroBoundaries: the first row
\* is left out and a row on an element interface is filled
C6_Witness ==
    /\ opKind = "Interp" /\ cpc = "done"
    /\ arg.eInterpSource = "Levels" /\ arg.fZeroBoundaries
    /\ RowSum(0) = RZero
    /\ \E r \in DOMAIN rowInfo : rowInfo[r].on /\ RowSum(r) = ROne

\* C7: with fZeroBoundaries, LinearColumnInterpFEM::Initialize leaves a row
\* entirely zero exactly when it is the first row and lies at REta = 0 or the
\* last row and lies at REta = 1 (within the tolerance); every other row is
\* filled, and without fZeroBoundaries no row is left zero.
C7_ZeroRowsExactlyAtBoundaries ==
    (cpc = "done" /\ opKind = "Interp") =>
        \A r \in DOMAIN m_dCoeff :
            (m_dCoeff[r] = ZeroRow(GetRows(m_dCoeff[r])))
            <=> /\ arg.fZeroBoundaries
                /\ \/ r = 0 /\ Abs(arg.dREtaOut[0]) < ParamEpsilon
                   \/ /\ r = GetRows(arg.dREtaOut) - 1
                      /\ Abs(arg.dREtaOut[r] - REtaOne(arg.dREtaREdge)) < ParamEpsilon

\* a finished interpolation to the interfaces with fZeroBoundaries: the first
\* and the last row are zero and a row between them is filled
C7_Witness ==
    /\ opKind = "Interp" /\ cpc = "done"
    /\ arg.fZeroBoundaries /\ arg.outKind = "interfaces"
    /\ GetRows(arg.dREtaOut) >= 3
    /\ m_dCoeff[0] = ZeroRow(GetRows(m_dCoeff[0]))
    /\ m_dCoeff[GetRows(arg.dREtaOut) - 1] = ZeroRow(GetRows(m_dCoeff[0]))
    /\ m_dCoeff[1] # ZeroRow(GetRows(m_dCoeff[1]))

\* row r of the operator applied to the column f
RowApply(r, f) ==
    RSum([k \in DOMAIN m_dCoeff[r] |-> RMul(m_dCoeff[r][k], RInt(f[k]))],
         0, GetRows(m_dCoeff[r]))
\* slopes and offsets of the affine columns the operator is applied to
Slopes == {-2, 1, 3}
Offsets == {0, 5}
AffineColumn(s, c, dREdge) == [k \in DOMAIN dREdge |-> s * dREdge[k] + c]

\* C18: the first-derivative operator InitializeInterfaceMethod builds from
\* interface values reproduces the slope of affine input: applied to the
\* column f[k] = s * REtaREdge[k] + c, every row yields s, the rows on an
\* internal finite-element interface included.
C18_AffineSlopeReproduced ==
    (opKind = "DiffInterface" /\ arg.eInterpSource = "Interfaces") =>
        \A r \in DOMAIN rowInfo :
            Stored(r) =>
                \A s \in Slopes, c \in Offsets :
                    RowApply(r, AffineColumn(s, c, arg.dREtaREdge)) = RInt(s)

\* a finished operator from interface values over elements of different
\* widths of order 2 or more: a row on an internal element interface blends
\* two one-sided derivatives with different weights and yields the slope
C18_Witness ==
    /\ opKind = "DiffInterface" /\ arg.eInterpSource = "Interfaces" /\ cpc = "done"
    /\ arg.nVerticalOrder >= 2 /\ NumFE(arg) >= 2
    /\ \E r \in DOMAIN rowInfo :
          /\ rowInfo[r].on
          /\ RowWidth(r) = 2 * arg.nVerticalOrder + 1
          /\ EdgeWeights(rowInfo[r].a, arg.nVerticalOrder, arg.dREtaREdge,
                         arg.nVerticalOrder).L # RHalf
          /\ RowApply(r, AffineColumn(3, 5, arg.dREtaREdge)) = RInt(3)

\* the resolution / order combinations the FEM initializers must reject
InvalidFEMArgs(a) ==
    \/ GetRows(a.dREtaNode) = 0
    \/ GetRows(a.dREtaREdge) # GetRows(a.dREtaNode) + 1
    \/ GetRows(a.dREtaNode) % a.nVerticalOrder # 0

FEMKinds == {"Interp", "DiffInterface", "DiffFlux"}

\* C23: LinearColumnInterpFEM::Initialize, InitializeInterfaceMethod and
\* InitializeFluxCorrectionMethod reject an empty level vector, an interface
\* vector whose length is not levels + 1 and a level count the order does
\* not divide: the call raises, and the operator's coefficients and row
\* bounds are neither allocated nor written.
C23_InvalidArgsRejected ==
    (opKind \in FEMKinds /\ InvalidFEMArgs(arg)) =>
        /\ cpc = "error"
        /\ colException \in {"At least one row required for dREtaNode",
                             "REtaNode / REtaREdge mismatch",
                             "Column RElements / VerticalOrder mismatch"}
        /\ m_dCoeff = <<>> /\ m_iBegin = <<>> /\ m_iEnd = <<>>

\* an initializer was called with an order that does not divide the levels
C23_Witness ==
    /\ opKind = "DiffFlux"
    /\ GetRows(arg.dREtaNode) > 0
    /\ GetRows(arg.dREtaNode) % arg.nVerticalOrder # 0
    /\ colException = "Column RElements / VerticalOrder mismatch"
    /\ m_dCoeff = <<>>

\* C21: in every row l of an operator built by LinearColumnInterpFEM::Initialize
\* every non-zero coefficient m_dCoeff[l][k] has its column k inside the
\* recorded support [m_iBegin[l], m_iEnd[l]), the rows on an internal
\* finite-element interface with source interfaces included.
C21_CoefficientsInsideSupport ==
    opKind = "Interp" =>
        \A r \in DOMAIN m_dCoeff : \A k \in DOMAIN m_dCoeff[r] :
            m_dCoeff[r][k] # RZero => (m_iBegin[r] <= k /\ k < m_iEnd[r])

\* the window of levels [off, off + n) the row l takes its nodes from and
\* writes its coefficients to, when LinearColumnInterpFEM::Initialize builds
\* from levels: two levels in the first and the last row of order 1
LevelsWindow(a, row) ==
    LET nOrder == a.nVerticalOrder
        e == Locate(nOrder, NumFE(a), a.dREtaREdge, a.dREtaOut[row]).a
        first == nOrder = 1 /\ row = 0
        last == nOrder = 1 /\ row = GetRows(a.dREtaOut) - 1 /\ ~first
    IN  [off |-> IF last THEN (e - 1) * nOrder ELSE e * nOrder,
         n |-> IF first \/ last THEN nOrder + 1 ELSE nOrder]

\* C27: while LinearColumnInterpFEM::Initialize builds an operator from
\* levels, the coefficient indices it writes and the node indices it reads
\* for a row lie in [0, number of levels), for every order and every number
\* of finite elements from 1 on, order 1 with one element included.
C27_LevelsIndicesInRange ==
    (opKind = "Interp" /\ arg.eInterpSource = "Levels" /\ cpc \in {"rows", "ub"}) =>
        LET w == LevelsWindow(arg, l)
        IN  w.off >= 0 /\ w.off + w.n <= GetRows(arg.dREtaNode)

\* the output of row `row` lies below the first or above the last interface
OutsideColumn(a, row) ==
    \/ a.dREtaOut[row] < a.dREtaREdge[0]
    \/ a.dREtaOut[row] > REtaOne(a.dREtaREdge)

GeometryEvaluated ==
    geomNode[0][GetAInteriorBegin][GetBInteriorBegin].m_dataDerivR[3] # RZero
StateSampled(n) ==
    m_datavecStateNode[n][RIx][0][GetAInteriorBegin][GetBInteriorBegin] # RZero

\* C2: ApplyBoundaryConditions writes the no-flow bottom value of w where the
\* staggering keeps w: with Charney-Phillips staggering into component w of
\* the edge field of slot iDataIndex at interface 0, for every (i, j) of the
\* patch; with w on nodes (Levels) into the node field at level 0.
C2_BottomWAtWLocation ==
    (lastCall.op = "ApplyBoundaryConditions" /\ staggering \in {"CharneyPhillips", "Levels"}
        /\ GeometryEvaluated /\ StateSampled(lastCall.iDataIndex)) =>
        /\ ppc = "ready"
        /\ \A i \in NodesA, j \in NodesB :
              LET n == lastCall.iDataIndex
                  dW == NoFlowUr(0, i, j, m_datavecStateNode[n][UIx][0][i][j],
                                 m_datavecStateNode[n][VIx][0][i][j])
              IN  IF staggering = "CharneyPhillips"
                  THEN m_datavecStateREdge[n][WIx][0][i][j] = dW
                  ELSE m_datavecStateNode[n][WIx][0][i][j] = dW

\* the test case has a topography value at or above z_top at some node of the
\* total index range of the patch, halo included
TopographyTooHigh ==
    \E i \in NodesA, j \in NodesB :
        TestTopography(testCase, GetANode(i), GetBNode(j)) >= GetZtop

\* C8: EvaluateTopography raises 'TestCase topography exceeds model top.' if
\* the sampled topography reaches z_top at any node of the total index range,
\* interior or halo, and raises nothing when every value is below z_top.
C8_TopographyError ==
    lastCall.op = "EvaluateTopography" =>
        IF TopographyTooHigh
        THEN ppc = "error" /\ patchException = "TestCase topography exceeds model top."
        ELSE ppc = "ready" /\ patchException = "none"

\* EvaluateTopography raised on a test case whose only value at or above
\* z_top lies at a node of the halo
C8_Witness ==
    /\ lastCall.op = "EvaluateTopography"
    /\ testCase = "peakHalo"
    /\ ppc = "error"
    /\ patchException = "TestCase topography exceeds model top."

\* the sums of the normalized areas of the grid differ from 1 by more than
\* the tolerance
NodeAreasOff == ~RGeq(AreaTolerance,
                      RAbs(RSub(RSum(GetREtaLevelsNormArea(areaNode), 0, GetRElements), ROne)))
EdgeAreasOff == ~RGeq(AreaTolerance,
                      RAbs(RSub(RSum(GetREtaInterfacesNormArea(areaEdge), 0, GetRElements + 1),
                                ROne)))
\* no metric term was computed
GeometryUntouched ==
    geom2D = ZeroGeom2D /\ geomNode = ZeroGeom(Levels) /\ geomREdge = ZeroGeom(Interfaces)
AreasErrorRaised ==
    ppc = "error" /\ patchException = "Error in normalized areas" /\ GeometryUntouched

\* C9, as stated: EvaluateGeometricTerms raises an error before computing
\* any metric term whenever the sum of the level areas or of the interface
\* areas is off by more than the tolerance, for every vertical staggering.
C9_AreasCheckedForEveryStaggering ==
    (lastCall.op = "EvaluateGeometricTerms" /\ (NodeAreasOff \/ EdgeAreasOff)) =>
        AreasErrorRaised

\* C9, amended: EvaluateGeometricTerms raises the error before computing any
\* metric term exactly when the sum of the level areas is off by more than
\* the tolerance, or the staggering is not INTERFACES and the sum of the
\* interface areas is off; with INTERFACES staggering the interface areas are
\* not checked and the metric terms are computed.
C9_AreasChecked ==
    lastCall.op = "EvaluateGeometricTerms" =>
        IF NodeAreasOff \/ (staggering # "Interfaces" /\ EdgeAreasOff)
        THEN AreasErrorRaised
        ELSE ppc = "ready" /\ patchException = "none" /\ GeometryEvaluated

\* EvaluateGeometricTerms computed the metric terms of a grid with INTERFACES
\* staggering whose interface areas do not sum to 1
C9_Witness ==
    /\ lastCall.op = "EvaluateGeometricTerms"
    /\ staggering = "Interfaces"
    /\ EdgeAreasOff /\ ~NodeAreasOff
    /\ ppc = "ready" /\ GeometryEvaluated

\* the height of the coordinate dREta over topography dZs under the stretch
\* of the grid: z_s + (z_top - z_s) F(REta)
StretchedHeight(dZs, dREta) ==
    RAdd(dZs, RMul(RSub(RInt(GetZtop), dZs), StretchF(stretch, dREta)))

\* C10: the heights EvaluateTestCase stores for every level and interface
\* equal z_s + (z_top - z_s) F(REta[k]), F the vertical stretch function of
\* the grid, the height map EvaluateGeometricTerms differentiates.
C10_HeightsFollowStretch ==
    (lastCall.op = "EvaluateTestCase" /\ ppc = "ready") =>
        \A i \in NodesA, j \in NodesB :
            /\ \A k \in Levels :
                  m_dataZLevels[k][i][j] =
                      StretchedHeight(m_dataTopography[i][j], GetREtaLevel(k))
            /\ \A k \in Interfaces :
                  m_dataZInterfaces[k][i][j] =
                      StretchedHeight(m_dataTopography[i][j], GetREtaInterface(k))

\* C11: when the test case reports Rayleigh friction, EvaluateTestCase samples
\* the Rayleigh strength at every level k in [0, N) of the node array and at
\* every interface k in [0, N] of the edge array, for every (i, j), at the
\* heights it has just stored; when it reports none, both arrays stay as they
\* were allocated.
C11_RayleighAtEveryDOF ==
    (lastCall.op = "EvaluateTestCase" /\ ppc = "ready") =>
        IF fRayleigh
        THEN \A i \in NodesA, j \in NodesB :
                /\ \A k \in Levels :
                      m_dataRayleighStrengthNode[k][i][j] =
                          TestRayleighStrength(m_dataZLevels[k][i][j],
                                               m_dataLon[i][j], m_dataLat[i][j])
                /\ \A k \in Interfaces :
                      m_dataRayleighStrengthREdge[k][i][j] =
                          TestRayleighStrength(m_dataZInterfaces[k][i][j],
                                               m_dataLon[i][j], m_dataLat[i][j])
        ELSE /\ m_dataRayleighStrengthNode = Zero3D(Levels)
             /\ m_dataRayleighStrengthREdge = Zero3D(Interfaces)

\* the nodes of the elements of the patch
InteriorNodes == {n \in AllNodes : InElementsA(n[1]) /\ InElementsB(n[2])}
Identity3 == <<<<ROne, RZero, RZero>>, <<RZero, ROne, RZero>>, <<RZero, RZero, ROne>>>>
\* the product of the contravariant and the covariant metric stored at a point
MetricProduct(g) ==
    LET dContra == <<g.m_dataContraMetricA, g.m_dataContraMetricB, g.m_dataContraMetricXi>>
        dCov == <<g.m_dataCovMetricA, g.m_dataCovMetricB, g.m_dataCovMetricXi>>
    IN  [a \in 1..3 |-> [c \in 1..3 |->
            DAdd(DAdd(DMul(dContra[a][1], dCov[1][c]), DMul(dContra[a][2], dCov[2][c])),
                 DMul(dContra[a][3], dCov[3][c]))]]

\* C12: after EvaluateGeometricTerms, at every level node (k, i, j) of the
\* patch interior the stored contravariant metric is the inverse of the stored
\* covariant metric: their product is the identity.
C12_ContraInverseOfCov ==
    (lastCall.op = "EvaluateGeometricTerms" /\ ppc = "ready") =>
        \A n \in InteriorNodes : \A k \in Levels :
            MetricProduct(geomNode[k][n[1]][n[2]]) = Identity3

\* the metric of a stretched grid over sloping topography was evaluated: the
\* off-diagonal terms are not zero
C12_Witness ==
    /\ lastCall.op = "EvaluateGeometricTerms" /\ ppc = "ready"
    /\ stretch = "stretched"
    /\ \E n \in InteriorNodes :
          LET g == geomNode[0][n[1]][n[2]]
          IN  /\ g.m_dataDerivR[1] # RZero /\ g.m_dataDerivR[2] # RZero
              /\ g.m_dataCovMetricA[3] # RZero
              /\ MetricProduct(g) = Identity3

\* x > 0
RPositive(x) == ~RGeq(RZero, x)

\* C13: after EvaluateGeometricTerms has run (the topography below z_top, the
\* derivative of the stretch function positive), the Jacobian stored at every
\* level and every interface of every interior node equals dDxZ * J_2D with
\* J_2D = 1 and is strictly positive.
C13_JacobianPositive ==
    (lastCall.op = "EvaluateGeometricTerms" /\ ppc = "ready") =>
        \A n \in InteriorNodes :
            LET JacobianOk(g) ==
                    /\ g.m_dataJacobian =
                           RMul(g.m_dataDerivR[3], geom2D[n[1]][n[2]].m_dataJacobian2D)
                    /\ RPositive(g.m_dataJacobian)
            IN  /\ geom2D[n[1]][n[2]].m_dataJacobian2D = ROne
                /\ \A k \in Levels : JacobianOk(geomNode[k][n[1]][n[2]])
                /\ \A k \in Interfaces : JacobianOk(geomREdge[k][n[1]][n[2]])

\* the Jacobian of a stretched grid over a hill was evaluated after the
\* topography: it differs between the bottom and the top interface
C13_Witness ==
    /\ lastCall.op = "EvaluateGeometricTerms" /\ ppc = "ready"
    /\ stretch = "stretched" /\ testCase = "hill"
    /\ \E n \in InteriorNodes :
          /\ m_dataTopography[n[1]][n[2]] # RZero
          /\ RPositive(geomREdge[0][n[1]][n[2]].m_dataJacobian)
          /\ geomREdge[0][n[1]][n[2]].m_dataJacobian
                 # geomREdge[GetRElements][n[1]][n[2]].m_dataJacobian

\* a step of EvaluateTestCase on a two-dimensional equation set with a
\* vertical order other than 1
MismatchedTestCaseStep ==
    /\ ppc = "ready" /\ ppc' # "constructed"
    /\ lastCall'.op = "EvaluateTestCase"
    /\ nDim = 2 /\ m_nVerticalOrder # 1
\* the step raises the mismatch and leaves the data as it was
RaisesMismatchUntouched ==
    /\ ppc' = "error"
    /\ patchException' = "VerticalOrder / Dimensionality mismatch"
    /\ UNCHANGED <<patchTopo, patchHeights, patchRayleigh, patchState, patchRefState>>

\* C14 as stated: EvaluateTestCase raises the dimensionality / vertical-order
\* mismatch whenever the dimensionality is 2 and the vertical order is not 1,
\* before the topography, heights, Rayleigh arrays or any state slot change.
C14_MismatchAlways ==
    [][MismatchedTestCaseStep => RaisesMismatchUntouched]_patchVars

\* C14: on allocated data and with iDataIndex naming a state slot,
\* EvaluateTestCase raises the dimensionality / vertical-order mismatch
\* whenever the dimensionality is 2 and the vertical order is not 1, before
\* the topography, heights, Rayleigh arrays or any state slot change.
C14_MismatchOnValidIndex ==
    [][(MismatchedTestCaseStep /\ lastCall'.iDataIndex \in Slots
            /\ Cardinality(DOMAIN m_datavecStateNode) # 0)
        => RaisesMismatchUntouched]_patchVars

\* the mismatch was raised on a patch whose topography had been evaluated
\* over a hill, and nothing but the topography has been written
C14_Witness ==
    /\ lastCall.op = "EvaluateTestCase" /\ lastCall.iDataIndex \in Slots
    /\ nDim = 2 /\ m_nVerticalOrder = 2
    /\ ppc = "error"
    /\ patchException = "VerticalOrder / Dimensionality mismatch"
    /\ m_dataTopography # Zero2D
    /\ m_dataZLevels = Zero3D(Levels)
    /\ m_datavecStateNode = [n \in Slots |-> ZeroState(Levels)]

\* a step of EvaluateTestCase on a patch without allocated state, or with
\* an index that names no slot
RejectedTestCaseStep ==
    /\ ppc \in {"constructed", "ready"} /\ lastCall'.op = "EvaluateTestCase"
    /\ \/ Cardinality(DOMAIN m_datavecStateNode) = 0
       \/ lastCall'.iDataIndex \notin 0..(Cardinality(DOMAIN m_datavecStateNode) - 1)

\* C26: EvaluateTestCase rejects a call made before any state slot is
\* allocated ('InitializeData must be called before InitialConditions') and
\* a call with iDataIndex outside [0, number of slots) ('Invalid iDataIndex
\* (out of range)'), in both cases before the topography, the heights, the
\* Rayleigh arrays or any state is modified.
C26_RejectedBeforeAnyWrite ==
    [][RejectedTestCaseStep =>
        /\ ppc' = "error"
        /\ patchException' =
              IF Cardinality(DOMAIN m_datavecStateNode) = 0
              THEN "InitializeData must be called before InitialConditions"
              ELSE "Invalid iDataIndex (out of range)"
        /\ UNCHANGED <<patchTopo, patchHeights, patchRayleigh, patchState,
                       patchRefState>>]_patchVars

\* the call was rejected for the index before the first slot, on a patch
\* whose topography had been evaluated over a hill and is still in place
C26_Witness ==
    /\ lastCall.op = "EvaluateTestCase" /\ lastCall.iDataIndex = -1
    /\ ppc = "error"
    /\ patchException = "Invalid iDataIndex (out of range)"
    /\ m_dataTopography # Zero2D /\ m_dataTopography # <<>>
    /\ m_datavecStateNode = [n \in Slots |-> ZeroState(Levels)]

\* C15: InitializeDataLocal raises 'Coordinate scale height exceeds model top'
\* if and only if the scale height, 10 times the maximum topography height
\* given to the constructor, is greater than or equal to z_top.
C15_ScaleHeightCheck ==
    lastCall.op = "InitializeDataLocal" =>
        /\ m_dSL = RMul(RInt(10), m_dTopoHeight)
        /\ (ppc = "error" /\ patchException = "Coordinate scale height exceeds model top.")
               <=> RGeq(m_dSL, RInt(GetZtop))
        /\ ppc = "error" <=> RGeq(m_dSL, RInt(GetZtop))

\* a patch whose scale height equals the model top was refused
C15_Witness ==
    /\ lastCall.op = "InitializeDataLocal"
    /\ m_dSL = RInt(GetZtop)
    /\ ppc = "error"
    /\ patchException = "Coordinate scale height exceeds model top."

\* InterpolateData was called with as many alphas as betas
InterpolateCalled ==
    lastCall.op = "InterpolateData" /\ Len(lastCall.dAlpha) = Len(lastCall.dBeta)
\* point i of the request is assigned to this patch
OwnPoint(i) == lastCall.iPatch[i] = GetPatchIndex
\* point i lies more than the tolerance outside the box of the patch
BeyondTolerance(i) ==
    \/ lastCall.dAlpha[i] < m_dGDim[1] - Eps
    \/ lastCall.dAlpha[i] > m_dGDim[2] + Eps
    \/ lastCall.dBeta[i] < m_dGDim[3] - Eps
    \/ lastCall.dBeta[i] > m_dGDim[4] + Eps
\* no entry of point i has been written
PointUnwritten(i) ==
    \A c \in Components, k \in Interfaces : dInterpData[c][k][i] = dCallerFill

C17_ReferenceSubtracted ==
    InterpolateCalled =>
        \A i \in 1..Len(lastCall.dAlpha) : \A c \in Components, k \in Interfaces :
            dInterpData[c][k][i] # dCallerFill =>
                LET dA == lastCall.dAlpha[i]
                    dB == lastCall.dBeta[i]
                    fNode == lastCall.eDataLocation = "Node"
                    dState == InterpolateArray(
                                  IF fNode THEN m_datavecStateNode[0][c][k]
                                  ELSE m_datavecStateREdge[0][c][k], dA, dB)
                    dRef == InterpolateArray(
                                IF fNode THEN m_dataRefStateNode[c][k]
                                ELSE m_dataRefStateREdge[c][k], dA, dB)
                IN  dInterpData[c][k][i] =
                        IF lastCall.eDataType # "State"
                        THEN InterpolateArray(m_dataTopography, dA, dB)
                        ELSE IF lastCall.fIncludeReferenceState THEN dState
                        ELSE DSub(dState, dRef)

\* the sampled state of the interfaces was interpolated to a point inside the
\* element and the reference state, which is not zero there, was taken off
C17_Witness ==
    /\ InterpolateCalled /\ ppc = "ready"
    /\ lastCall.eDataType = "State" /\ lastCall.eDataLocation = "REdge"
    /\ ~lastCall.fIncludeReferenceState
    /\ OwnPoint(1) /\ lastCall.dAlpha[1] = 1 /\ lastCall.dBeta[1] = 3
    /\ InterpolateArray(m_dataRefStateREdge[TIx][GetRElements], 1, 3) # RZero
    /\ dInterpData[TIx][GetRElements][1] =
           DSub(InterpolateArray(m_datavecStateREdge[0][TIx][GetRElements], 1, 3),
                InterpolateArray(m_dataRefStateREdge[TIx][GetRElements], 1, 3))
    /\ dInterpData[TIx][GetRElements][1] # RZero

\* a step of EvaluateTestCase that returns
TestCaseStepReturns ==
    ppc = "ready" /\ ppc' = "ready" /\ lastCall'.op = "EvaluateTestCase"
\* field (of levels or interfaces K, with heights dZ) holds at every point the
\* converted sample of the state, or of the reference state
HoldsConverted(field, K, dZ, fRef) ==
    \A k \in K, i \in NodesA, j \in NodesB :
        LET dSample == IF fRef
                       THEN TestReferenceState(dZ[k][i][j], m_dataLon[i][j], m_dataLat[i][j])
                       ELSE TestPointwiseState(dZ[k][i][j], m_dataLon[i][j], m_dataLat[i][j])
            dConverted == ConvertComponents(dSample)
        IN  \A c \in Components : field[c][k][i][j] = dConverted[c]

\* C22: EvaluateTestCase stores, at every level and every interface, the
\* pointwise state and the reference state as ConvertComponents returns them;
\* it writes the state into slot iDataIndex alone, and it writes the node
\* and edge reference-state arrays if and only if the grid has a reference
\* state.
C22_ConvertedIntoSlot ==
    [][TestCaseStepReturns =>
        /\ HoldsConverted(m_datavecStateNode'[lastCall'.iDataIndex], Levels,
                          m_dataZLevels', FALSE)
        /\ HoldsConverted(m_datavecStateREdge'[lastCall'.iDataIndex], Interfaces,
                          m_dataZInterfaces', FALSE)
        /\ \A n \in Slots \ {lastCall'.iDataIndex} :
              /\ m_datavecStateNode'[n] = m_datavecStateNode[n]
              /\ m_datavecStateREdge'[n] = m_datavecStateREdge[n]
        /\ IF fRefState
           THEN /\ HoldsConverted(m_dataRefStateNode', Levels, m_dataZLevels', TRUE)
                /\ HoldsConverted(m_dataRefStateREdge', Interfaces, m_dataZInterfaces', TRUE)
           ELSE UNCHANGED patchRefState]_patchVars

\* the test case was evaluated into slot 1 on a grid without a reference
\* state: slot 1 holds the converted state (rho u = rho * u), slot 0 and the
\* reference-state arrays are as allocated
C22_Witness ==
    /\ lastCall.op = "EvaluateTestCase" /\ lastCall.iDataIndex = 1 /\ ppc = "ready"
    /\ ~fRefState
    /\ HoldsConverted(m_datavecStateREdge[1], Interfaces, m_dataZInterfaces, FALSE)
    /\ \E i \in NodesA, j \in NodesB :
          m_datavecStateNode[1][UIx][0][i][j]
              # TestPointwiseState(m_dataZLevels[0][i][j], m_dataLon[i][j],
                                   m_dataLat[i][j])[UIx]
    /\ m_datavecStateNode[0] = ZeroState(Levels)
    /\ m_dataRefStateNode = ZeroState(Levels)
    /\ m_dataRefStateREdge = ZeroState(Interfaces)

\* the 2D metric of the Cartesian patch at the nodes of the elements
CartesianMetric2D ==
    \A n \in InteriorNodes :
        /\ geom2D[n[1]][n[2]].m_dataJacobian2D = ROne
        /\ geom2D[n[1]][n[2]].m_dataContraMetric2DA = <<ROne, RZero>>
        /\ geom2D[n[1]][n[2]].m_dataContraMetric2DB = <<RZero, ROne>>
\* the derivatives of a field along alpha and beta at a node of an element of
\* two nodes: the slope between the two nodes
SlopeA(f, k, iA, iB) ==
    RDiv(RSub(f[k][ElementBeginA(iA) + 1][iB], f[k][ElementBeginA(iA)][iB]),
         RInt(GetElementDeltaA))
SlopeB(f, k, iA, iB) ==
    RDiv(RSub(f[k][iA][ElementBeginB(iB) + 1], f[k][iA][ElementBeginB(iB)]),
         RInt(GetElementDeltaB))
\* the (element, node of the element) pairs of the loops of ComputeCurlAndDiv
\* that address node (iA, iB)
ElementVisits(iA, iB) ==
    {v \in (0..(GetElementCountA - 1)) \X (0..(GetElementCountB - 1))
           \X (0..(m_nHorizontalOrder - 1)) \X (0..(m_nHorizontalOrder - 1)) :
        /\ v[1] * m_nHorizontalOrder + HaloElements + v[3] = iA
        /\ v[2] * m_nHorizontalOrder + HaloElements + v[4] = iB}

\* C24: on the Cartesian patch (2D Jacobian 1, identity 2D metric)
\* ComputeCurlAndDiv stores, at every node of the elements on every level,
\* the divergence d_a(u) + d_b(v) and the vorticity d_a(v) - d_b(u) of the
\* fields u and v it is given; every such node is addressed by exactly one
\* pass of its loops, the halo entries of the vorticity and the divergence
\* and the state the fields come from are unchanged.
C24_CurlAndDiv ==
    [][(ppc = "ready" /\ lastCall'.op = "ComputeCurlAndDiv" /\ CartesianMetric2D) =>
        LET dataUa == m_datavecStateNode[lastCall'.iDataIndex][lastCall'.iUa]
            dataUb == m_datavecStateNode[lastCall'.iDataIndex][lastCall'.iUb]
        IN  /\ \A k \in Levels, n \in AllNodes :
                  IF n \in InteriorNodes
                  THEN /\ m_dataDivergence'[k][n[1]][n[2]] =
                              RAdd(SlopeA(dataUa, k, n[1], n[2]),
                                   SlopeB(dataUb, k, n[1], n[2]))
                       /\ m_dataVorticity'[k][n[1]][n[2]] =
                              RSub(SlopeA(dataUb, k, n[1], n[2]),
                                   SlopeB(dataUa, k, n[1], n[2]))
                       /\ Cardinality(ElementVisits(n[1], n[2])) = 1
                  ELSE /\ m_dataDivergence'[k][n[1]][n[2]] = m_dataDivergence[k][n[1]][n[2]]
                       /\ m_dataVorticity'[k][n[1]][n[2]] = m_dataVorticity[k][n[1]][n[2]]
                       /\ ElementVisits(n[1], n[2]) = {}
            /\ UNCHANGED patchState]_patchVars

\* ComputeCurlAndDiv has returned on the Cartesian patch with a field whose
\* vorticity and divergence are not zero
C24_Witness ==
    /\ lastCall.op = "ComputeCurlAndDiv" /\ ppc = "ready"
    /\ CartesianMetric2D
    /\ \E k \in Levels, n \in InteriorNodes :
          /\ m_dataVorticity[k][n[1]][n[2]] # RZero
          /\ m_dataDivergence[k][n[1]][n[2]] # RZero

\* C20: ApplyBoundaryConditions imposes the no-flow bottom condition for each
\* of the three vertical staggerings: for Levels, Interfaces and
\* Charney-Phillips the call completes without error, and w at the bottom (of
\* the node field or of the edge field of slot iDataIndex) is the no-flow
\* value computed from u and v there, for every (i, j) of the patch.
C20_NoFlowForEveryStaggering ==
    (lastCall.op = "ApplyBoundaryConditions" /\ staggering \in Staggerings
        /\ GeometryEvaluated /\ StateSampled(lastCall.iDataIndex)) =>
        /\ ppc = "ready" /\ patchException = "none"
        /\ \A i \in NodesA, j \in NodesB :
              LET n == lastCall.iDataIndex
                  dW == NoFlowUr(0, i, j, m_datavecStateNode[n][UIx][0][i][j],
                                 m_datavecStateNode[n][VIx][0][i][j])
              IN  \/ m_datavecStateNode[n][WIx][0][i][j] = dW
                  \/ m_datavecStateREdge[n][WIx][0][i][j] = dW

\* a step of ApplyBoundaryConditions
BoundaryStep == ppc = "ready" /\ lastCall'.op = "ApplyBoundaryConditions"
\* the step leaves every entry of the state unchanged but w at k = 0 of slot
\* n at the nodes (i, j) of Written
OnlyBottomWChanged(n, Written) ==
    \A m \in Slots, c \in Components, i \in NodesA, j \in NodesB :
        /\ \A k \in Levels :
              (m # n \/ c # WIx \/ k # 0 \/ <<i, j>> \notin Written) =>
                  m_datavecStateNode'[m][c][k][i][j] = m_datavecStateNode[m][c][k][i][j]
        /\ \A k \in Interfaces :
              (m # n \/ c # WIx \/ k # 0 \/ <<i, j>> \notin Written) =>
                  m_datavecStateREdge'[m][c][k][i][j] = m_datavecStateREdge[m][c][k][i][j]
\* a call that follows a call for the same slot changes nothing
SecondCallChangesNothing ==
    (lastCall.op = "ApplyBoundaryConditions"
        /\ lastCall.iDataIndex = lastCall'.iDataIndex) => UNCHANGED patchState

\* C25: ApplyBoundaryConditions changes only component w at the bottom index
\* k = 0 of slot iDataIndex: u, v, theta and rho everywhere, w at every
\* k > 0, every other slot and the lateral halo values of all components are
\* unchanged, and a second application changes nothing.
C25_OnlyBottomWOfInterior ==
    [][BoundaryStep =>
        /\ OnlyBottomWChanged(lastCall'.iDataIndex, InteriorNodes)
        /\ SecondCallChangesNothing]_patchVars

\* C29: InterpolateData leaves dInterpData unchanged when it fails: after a
\* call that raised, every entry of the output array holds what the caller
\* had put there, the entries of the points before the offending point
\* included.
C29_FailureLeavesOutputUnchanged ==
    (lastCall.op = "InterpolateData" /\ ppc = "error") =>
        \A c \in DOMAIN dInterpData : \A k \in DOMAIN dInterpData[c] :
            \A i \in DOMAIN dInterpData[c][k] : dInterpData[c][k][i] = dCallerFill

(***************************************************************************)
(* Properties of the test case.                                            *)
(***************************************************************************)
\* C19: the callbacks of ThermalBubbleCartesianTest keep the contract of a
\* test case at every point: EvaluateTopography returns a value that is at
\* least 0 and below GetZtop(); EvaluateReferenceState and
\* EvaluatePointwiseState both write zero to the three velocity components
\* and write the same density; they differ in the potential temperature only,
\* and not at all at a point farther than r_c from the centre of the bubble.
C19_BubbleCallbacksContract ==
    /\ bubbleTopography # <<>> =>
          /\ RGeq(bubbleTopography[1], RZero)
          /\ ~RGeq(bubbleTopography[1], RInt(ThermalBubbleGetZtop))
    /\ bubbleReference # <<>> =>
          \A c \in {UIx, VIx, WIx} : bubbleReference[1][c] = RZero
    /\ bubblePointwise # <<>> =>
          \A c \in {UIx, VIx, WIx} : bubblePointwise[1][c] = RZero
    /\ (bubbleReference # <<>> /\ bubblePointwise # <<>>) =>
          /\ \A c \in Components \ {TIx} : bubblePointwise[1][c] = bubbleReference[1][c]
          /\ RadiusSquared(bubblePoint.dXp, bubblePoint.dZp) > m_drC * m_drC =>
                 bubblePointwise[1][TIx] = bubbleReference[1][TIx]

\* the three callbacks have been evaluated at a point just outside the
\* bubble, above the ground: no perturbation, the density of that height
C19_Witness ==
    /\ bubbleTopography # <<>> /\ bubbleReference # <<>> /\ bubblePointwise # <<>>
    /\ RadiusSquared(bubblePoint.dXp, bubblePoint.dZp) = (m_drC + 1) * (m_drC + 1)
    /\ bubblePointwise[1][TIx] = RInt(m_dThetaBar)
    /\ bubblePointwise[1][RIx] = bubbleReference[1][RIx]
    /\ bubblePointwise[1][RIx].dExnerP # ROne

(***************************************************************************)
(* The specifications.  Each runs one part of the program and leaves the   *)
(* variables of the other parts as they are.                               *)
(***************************************************************************)
vars == <<colVars, mainVars, patchVars, testVars>>

\* building column operators
InitColumn == ColInit /\ MainIdle /\ PatchIdle /\ TestIdle
NextColumn ==
    \/ InterpInitialize /\ UNCHANGED <<mainVars, patchVars, testVars>>
    \/ InterpStep /\ UNCHANGED <<mainVars, patchVars, testVars>>
    \/ InterfaceMethodInitialize /\ UNCHANGED <<mainVars, patchVars, testVars>>
    \/ InterfaceMethodStep /\ UNCHANGED <<mainVars, patchVars, testVars>>
    \/ InterfaceMethodCompose /\ UNCHANGED <<mainVars, patchVars, testVars>>
    \/ FluxCorrectionInitialize /\ UNCHANGED <<mainVars, patchVars, testVars>>
    \/ FluxCorrectionStep /\ UNCHANGED <<mainVars, patchVars, testVars>>
    \/ GLLNodesInitialize /\ UNCHANGED <<mainVars, patchVars, testVars>>
    \/ GLLNodesStep /\ UNCHANGED <<mainVars, patchVars, testVars>>
    \/ DiffDiffGLLInitialize /\ UNCHANGED <<mainVars, patchVars, testVars>>
    \/ DiffDiffGLLStep /\ UNCHANGED <<mainVars, patchVars, testVars>>
SpecColumn == InitColumn /\ [][NextColumn]_vars

\* a run of main()
InitMain == MainInit /\ ColInit /\ PatchIdle /\ TestIdle
NextMain ==
    \/ MainTempestInitialize /\ UNCHANGED <<colVars, patchVars, testVars>>
    \/ MainParseCommandLine /\ UNCHANGED <<colVars, patchVars, testVars>>
    \/ MainSetupModel /\ UNCHANGED <<colVars, patchVars, testVars>>
    \/ MainSetTestCase /\ UNCHANGED <<colVars, patchVars, testVars>>
    \/ MainGoStep /\ UNCHANGED <<colVars, patchVars, testVars>>
    \/ MainGoReturn /\ UNCHANGED <<colVars, patchVars, testVars>>
    \/ MainComputeErrorNorms /\ UNCHANGED <<colVars, patchVars, testVars>>
    \/ MainCatch /\ UNCHANGED <<colVars, patchVars, testVars>>
    \/ MainTempestDeinitialize /\ UNCHANGED <<colVars, patchVars, testVars>>
SpecMain == InitMain /\ [][NextMain]_vars
\* main() is a sequential program that keeps running until it returns
SpecMainFair == InitMain /\ [][NextMain]_vars /\ WF_vars(NextMain)

\* the calls on a patch that evaluate a test case and apply the boundary
\* conditions, on a grid with normalized areas that sum to one
InitPatch ==
    /\ areaNode = "exact"
    /\ areaEdge = "exact"
    /\ fRefState = TRUE
    /\ nDim = 3
    /\ m_nVerticalOrder = 1
    /\ PatchInit /\ ColInit /\ MainIdle /\ TestIdle
NextPatch ==
    \/ InitializeDataLocal /\ UNCHANGED <<colVars, mainVars, testVars>>
    \/ EvaluateTopography /\ UNCHANGED <<colVars, mainVars, testVars>>
    \/ EvaluateGeometricTerms /\ UNCHANGED <<colVars, mainVars, testVars>>
    \/ (\E iDataIndex \in DataIndices : EvaluateTestCase(iDataIndex))
       /\ UNCHANGED <<colVars, mainVars, testVars>>
    \/ (\E iDataIndex \in Slots : ApplyBoundaryConditions(iDataIndex))
       /\ UNCHANGED <<colVars, mainVars, testVars>>
SpecPatch == InitPatch /\ [][NextPatch]_vars

\* setting a patch up for a test case, for every dimensionality, vertical
\* order and maximum topography height
InitSetup ==
    /\ staggering = "Levels"
    /\ fCovariant = FALSE
    /\ stretch = "uniform"
    /\ areaNode = "exact"
    /\ areaEdge = "exact"
    /\ PatchInit /\ ColInit /\ MainIdle /\ TestIdle
NextSetup ==
    \/ InitializeDataLocal /\ UNCHANGED <<colVars, mainVars, testVars>>
    \/ EvaluateTopography /\ UNCHANGED <<colVars, mainVars, testVars>>
    \/ (\E iDataIndex \in DataIndices : EvaluateTestCase(iDataIndex))
       /\ UNCHANGED <<colVars, mainVars, testVars>>
SpecSetup == InitSetup /\ [][NextSetup]_vars

\* interpolating the data of a patch over a hill, before and after the test
\* case has filled slot 0; a run makes one request
InitInterp ==
    /\ staggering = "Levels"
    /\ fCovariant = FALSE
    /\ stretch = "uniform"
    /\ testCase = "hill"
    /\ areaNode = "exact"
    /\ areaEdge = "exact"
    /\ fRayleigh = FALSE
    /\ fRefState = TRUE
    /\ nDim = 3
    /\ m_nVerticalOrder = 1
    /\ m_dTopoHeight = RInt(1)
    /\ PatchInit /\ ColInit /\ MainIdle /\ TestIdle
NextInterp ==
    \/ InitializeDataLocal /\ UNCHANGED <<colVars, mainVars, testVars>>
    \/ EvaluateTestCase(0) /\ UNCHANGED <<colVars, mainVars, testVars>>
    \/ (/\ phase < Rank("InterpolateData")
        /\ \E pts \in PointLists, nBeta \in 1..MaxPoints,
             eDataType \in DataTypes, eDataLocation \in DataLocations,
             fIncludeReferenceState \in BOOLEAN :
             InterpolateData([i \in 1..Len(pts) |-> pts[i][1][1]],
                             [i \in 1..nBeta |-> IF i <= Len(pts) THEN pts[i][1][2] ELSE 0],
                             [i \in 1..Len(pts) |-> pts[i][2]],
                             eDataType, eDataLocation, fIncludeReferenceState))
       /\ UNCHANGED <<colVars, mainVars, testVars>>
SpecInterp == InitInterp /\ [][NextInterp]_vars

\* the callbacks of the thermal bubble test case at a point
InitBubble == TestInit /\ ColInit /\ MainIdle /\ PatchIdle
NextBubble ==
    \/ CallEvaluateTopography /\ UNCHANGED <<colVars, mainVars, patchVars>>
    \/ CallEvaluateReferenceState /\ UNCHANGED <<colVars, mainVars, patchVars>>
    \/ CallEvaluatePointwiseState /\ UNCHANGED <<colVars, mainVars, patchVars>>
SpecBubble == InitBubble /\ [][NextBubble]_vars

\* the calls on a patch that build its geometry, on grids with every case of
\* the normalized areas
\* the patch with its state evaluated, and the vorticity and divergence of it
InitCurl ==
    /\ fCovariant = FALSE
    /\ areaNode = "exact"
    /\ areaEdge = "exact"
    /\ fRayleigh = FALSE
    /\ fRefState = TRUE
    /\ nDim = 3
    /\ m_nVerticalOrder = 1
    /\ m_dTopoHeight = RInt(1)
    /\ testCase \in {"flat", "hill"}
    /\ PatchInit /\ ColInit /\ MainIdle /\ TestIdle
NextCurl ==
    \/ InitializeDataLocal /\ UNCHANGED <<colVars, mainVars, testVars>>
    \/ EvaluateGeometricTerms /\ UNCHANGED <<colVars, mainVars, testVars>>
    \/ (\E iDataIndex \in Slots : EvaluateTestCase(iDataIndex))
       /\ UNCHANGED <<colVars, mainVars, testVars>>
    \/ (\E iDataIndex \in Slots, iUa \in {UIx, VIx}, iUb \in {UIx, VIx} :
            ComputeCurlAndDiv(iDataIndex, iUa, iUb))
       /\ UNCHANGED <<colVars, mainVars, testVars>>
SpecCurl == InitCurl /\ [][NextCurl]_vars

InitGeometry ==
    /\ fCovariant = FALSE
    /\ fRayleigh = FALSE
    /\ fRefState = TRUE
    /\ nDim = 3
    /\ m_nVerticalOrder = 1
    /\ m_dTopoHeight = RInt(1)
    /\ PatchInit /\ ColInit /\ MainIdle /\ TestIdle
NextGeometry ==
    \/ InitializeDataLocal /\ UNCHANGED <<colVars, mainVars, testVars>>
    \/ EvaluateTopography /\ UNCHANGED <<colVars, mainVars, testVars>>
    \/ EvaluateGeometricTerms /\ UNCHANGED <<colVars, mainVars, testVars>>
SpecGeometry == InitGeometry /\ [][NextGeometry]_vars

====
